---------------------------- MODULE Spec2Model ----------------------------
(***************************************************************************)
(* Model of the routing-and-retrieval orchestration engine of the travel   *)
(* agency customer service backend (backend/app).                          *)
(*                                                                         *)
(* Texts (queries, message contents, answers) are TLA+ strings, read as    *)
(* sequences of characters.  Confidences are counted in hundredths         *)
(* (0.6 is 60): the float sums 0.5 + s * 0.1 of the fallback are exactly   *)
(* the doubles 0.6, 0.7, 0.8, ... for s = 1 .. 11, so the scaling keeps    *)
(* every comparison the code makes.                                        *)
(***************************************************************************)
EXTENDS Integers, Sequences, FiniteSets, TLC

(***************************************************************************)
(* Bounds of the model.                                                    *)
(***************************************************************************)
\* Longest generated query, in vocabulary words.
MaxWords == 2
\* Longest conversation handed to the graph, in messages.
MaxMessages == 2
\* The longest conversation handed to generate_response in SpecHistory.
MaxHistory == 5
\* The most chunks the vector store returns for a query in SpecRag.
MaxChunks == 2
\* The most cached documents searched in SpecSearch.
MaxDocs == 5
\* The most requests the service receives in SpecStartup.
MaxRequests == 6
\* Runs of the ingestion script.
MaxRuns == 2

(***************************************************************************)
(* State.  The r_ variables are the calls made on one OrchestratorAgent,   *)
(* used by SpecRouter.                                                     *)
(***************************************************************************)
VARIABLES
    r_query,      \* the query text under study
    r_last,       \* the last call made on the router and what it returned
    r_fallback,   \* the decisions _fallback_routing(r_query) has returned so far
    r_repeat      \* how far a repeated fallback call on r_query has come:
                  \* "none", "first" (called once), "between" (another call
                  \* followed), "again" (called again after that)

routerVars == <<r_query, r_last, r_fallback, r_repeat>>

(***************************************************************************)
(* State of one request, used by Spec: the GraphState threaded through the *)
(* compiled graph, the position of the run, and what the run has done.     *)
(***************************************************************************)
VARIABLES
    state,        \* GraphState: messages, current_query, routing_decision,
                  \* current_agent, response
    pc,           \* "idle", the node to run next, "END", "raised" or "done"
    input,        \* the state graph.invoke was handed
    via,          \* "none", "chat" (chat_endpoint) or "invoke" (graph.invoke)
    executed,     \* the nodes the run has executed, in order
    calls,        \* the calls the run has made on services and caches, in order
    http,         \* chat_endpoint's answer: status, message, agent_type
    generated     \* what the generation service did in this request, if called

graphVars == <<state, pc, input, via, executed, calls, http, generated>>

(***************************************************************************)
(* The conversation handed to an agent's generate_response and the history *)
(* it placed in the generation prompt, used by SpecHistory.                *)
(***************************************************************************)
VARIABLES
    h_conversation,   \* the conversation_history argument
    h_prompt          \* the agent called and the history messages of the
                      \* prompt it built, once it has been called

historyVars == <<h_conversation, h_prompt>>

(***************************************************************************)
(* The static caches, used by SpecCache: the corpus directory, the         *)
(* CAGRetriever of the PolicyAgent and the one inside the HybridRetriever  *)
(* of the BookingPaymentsAgent, and the HybridRetriever's own fields.      *)
(***************************************************************************)
VARIABLES
    disk,           \* the corpus directory: whether it exists, its .txt files
    cag,            \* per CAGRetriever: cached_documents, and how often
                    \* load_documents ran for a category since that category's
                    \* entry was last cleared
    hybrid,         \* HybridRetriever: static_policy_cache, cache_initialized,
                    \* and how often the filtered subset was computed since
                    \* the last clear_cache
    c_last,         \* the last call made on a retriever
    c_result,       \* what the last call was given and what it returned
    c_returned,     \* per category, the sequences get_cached_documents has
                    \* returned on the PolicyAgent's retriever since the
                    \* category's entry was last cleared
    invalidated,    \* whether any clear_cache has been called
    graph_created   \* whether create_agent_graph has constructed the agents

cacheVars ==
    <<disk, cag, hybrid, c_last, c_result, c_returned, invalidated, graph_created>>

(***************************************************************************)
(* Requests running as threads on the shared retrievers, used by SpecRace: *)
(* each thread's call, its position in it and its local variables.         *)
(***************************************************************************)
VARIABLES
    threads         \* per thread: the method it called (task), the statement
                    \* it is at (pc), the statements to return to (stack),
                    \* its local list (documents), the file load_documents
                    \* reads next, whether it completed a load_documents, and
                    \* what its call returned

raceVars == <<threads>>

(***************************************************************************)
(* One call of a RAGRetriever (SpecRag), one call of search_cached on      *)
(* given documents (SpecSearch), and the service process with its lazily   *)
(* created agent graph (SpecStartup).                                      *)
(***************************************************************************)
VARIABLES
    rag,            \* the outcomes of the embedding call and of the store
                    \* query, the score threshold, the method called and
                    \* what it returned
    srch,           \* the documents, the query and the case_sensitive flag
                    \* of a search_cached, and what it returned
    startup         \* whether the vector collection exists, whether
                    \* agent_graph is set, and the answers to the chat
                    \* requests so far

VARIABLES
    whr,            \* a vector-store query of RAGRetriever.retrieve: the
                    \* category and extra filter asked for, the where clause
                    \* sent and the chunks the store returned
    chat,           \* the session store of main.py and the chat requests in
                    \* progress
    ingest          \* the mock_data files given to the ingestion script and
                    \* the chunks it stored

moreVars == <<whr, chat, ingest>>

callVars == <<rag, srch, startup, moreVars>>

(***************************************************************************)
(* Python text primitives.                                                 *)
(***************************************************************************)
\* str.__contains__: sub occurs in s as a contiguous substring.
Contains(s, sub) ==
    \E i \in 1..(Len(s) - Len(sub) + 1) : SubSeq(s, i, i + Len(sub) - 1) = sub

UpperToLower ==
    ("A" :> "a") @@ ("B" :> "b") @@ ("C" :> "c") @@ ("D" :> "d") @@
    ("E" :> "e") @@ ("F" :> "f") @@ ("G" :> "g") @@ ("H" :> "h") @@
    ("I" :> "i") @@ ("J" :> "j") @@ ("K" :> "k") @@ ("L" :> "l") @@
    ("M" :> "m") @@ ("N" :> "n") @@ ("O" :> "o") @@ ("P" :> "p") @@
    ("Q" :> "q") @@ ("R" :> "r") @@ ("S" :> "s") @@ ("T" :> "t") @@
    ("U" :> "u") @@ ("V" :> "v") @@ ("W" :> "w") @@ ("X" :> "x") @@
    ("Y" :> "y") @@ ("Z" :> "z")

\* The variant that leaves the text as it is.
LowerMissing(s) == s

RECURSIVE Lower(_)
\* str.lower
Lower(s) ==
    IF s = "" THEN ""
    ELSE LET c == SubSeq(s, 1, 1)
         IN (IF c \in DOMAIN UpperToLower THEN UpperToLower[c] ELSE c)
                \o Lower(SubSeq(s, 2, Len(s)))

Whitespace == {" ", "\n", "\t"}

RECURSIVE LStrip(_)
LStrip(s) ==
    IF s # "" /\ SubSeq(s, 1, 1) \in Whitespace
    THEN LStrip(SubSeq(s, 2, Len(s)))
    ELSE s

RECURSIVE RStrip(_)
RStrip(s) ==
    IF s # "" /\ SubSeq(s, Len(s), Len(s)) \in Whitespace
    THEN RStrip(SubSeq(s, 1, Len(s) - 1))
    ELSE s

\* str.strip
Strip(s) == LStrip(RStrip(s))

PyMin(a, b) == IF b < a THEN b ELSE a
PyMax(a, b) == IF b > a THEN b ELSE a

(***************************************************************************)
(* Routing decision (app.models.state.AgentRoutingDecision).               *)
(***************************************************************************)
AgentTypes == {"travel_support", "booking_payments", "policy"}

AgentRoutingDecision(agent_type, confidence, reasoning) ==
    [agent_type |-> agent_type, confidence |-> confidence, reasoning |-> reasoning]

(***************************************************************************)
(* OrchestratorAgent._fallback_routing                                     *)
(***************************************************************************)
booking_keywords ==
    << "price", "cost", "payment", "invoice", "booking", "package",
       "how much", "pricing", "pay", "refund", "charge" >>

policy_keywords ==
    << "policy", "cancel", "cancellation", "terms", "insurance",
       "baggage", "refund policy", "tos", "terms of service" >>

\* sum(1 for kw in keywords if kw in query_lower)
KeywordScore(keywords, query_lower) ==
    Cardinality({i \in 1..Len(keywords) : Contains(query_lower, keywords[i])})

\* The variant that compares the scores with >= (a tie goes to booking).
_fallback_routing_tie(query) ==
    LET query_lower == Lower(query)
        b == KeywordScore(booking_keywords, query_lower)
        p == KeywordScore(policy_keywords, query_lower)
    IN  IF b >= p /\ b > 0
        THEN AgentRoutingDecision("booking_payments", PyMin(80, 50 + b * 10),
                                  "Matched booking/payment keywords")
        ELSE IF p > 0
        THEN AgentRoutingDecision("policy", PyMin(80, 50 + p * 10),
                                  "Matched policy keywords")
        ELSE AgentRoutingDecision("travel_support", 60,
                                  "Default fallback to travel support")

\* The variant without the cap of 0.8 on the confidence.
_fallback_routing_nocap(query) ==
    LET query_lower == Lower(query)
        b == KeywordScore(booking_keywords, query_lower)
        p == KeywordScore(policy_keywords, query_lower)
    IN  IF b > p /\ b > 0
        THEN AgentRoutingDecision("booking_payments", 50 + b * 10,
                                  "Matched booking/payment keywords")
        ELSE IF p > 0
        THEN AgentRoutingDecision("policy", 50 + p * 10,
                                  "Matched policy keywords")
        ELSE AgentRoutingDecision("travel_support", 60,
                                  "Default fallback to travel support")

\* The variant that remembers the decision of the previous fallback call.
_fallback_routing_sticky(query) ==
    LET query_lower == Lower(query)
        b == KeywordScore(booking_keywords, query_lower)
        p == KeywordScore(policy_keywords, query_lower)
    IN  IF r_last.op = "_fallback_routing" THEN r_last.decision
        ELSE IF b > p /\ b > 0
        THEN AgentRoutingDecision("booking_payments", PyMin(80, 50 + b * 10),
                                  "Matched booking/payment keywords")
        ELSE IF p > 0
        THEN AgentRoutingDecision("policy", PyMin(80, 50 + p * 10),
                                  "Matched policy keywords")
        ELSE AgentRoutingDecision("travel_support", 60,
                                  "Default fallback to travel support")

_fallback_routing(query) ==
    LET query_lower == Lower(query)
        b == KeywordScore(booking_keywords, query_lower)
        p == KeywordScore(policy_keywords, query_lower)
    IN  IF b > p /\ b > 0
        THEN AgentRoutingDecision("booking_payments", PyMin(80, 50 + b * 10),
                                  "Matched booking/payment keywords")
        ELSE IF p > 0
        THEN AgentRoutingDecision("policy", PyMin(80, 50 + p * 10),
                                  "Matched policy keywords")
        ELSE AgentRoutingDecision("travel_support", 60,
                                  "Default fallback to travel support")

(***************************************************************************)
(* The classifier's reply.  The reply text is a sequence of tokens: an     *)
(* opening brace, a closing brace, the members between the braces of one   *)
(* JSON object (a dict from keys to JSON values), a JSON value that is not *)
(* an object, or a run of prose without braces.                            *)
(***************************************************************************)
JStr(s) == [type |-> "string", str |-> s, num |-> 0]
JNum(n) == [type |-> "number", str |-> "", num |-> n]
JNull == [type |-> "null", str |-> "", num |-> 0]
\* json.loads accepts the literal NaN and yields float("nan").
JNaN == [type |-> "nan", str |-> "", num |-> 0]

EmptyDict == [k \in {} |-> JNull]

LB == [t |-> "LB", m |-> EmptyDict]
RB == [t |-> "RB", m |-> EmptyDict]
Prose == [t |-> "PROSE", m |-> EmptyDict]
Scalar == [t |-> "SCALAR", m |-> EmptyDict]
Members(d) == [t |-> "MEMBERS", m |-> d]

\* str.find / str.rfind of a brace, 0-based, -1 when absent.
Find(text, t) ==
    LET at == {i \in 1..Len(text) : text[i].t = t}
    IN  IF at = {} THEN -1 ELSE (CHOOSE i \in at : \A j \in at : i <= j) - 1

RFind(text, t) ==
    LET at == {i \in 1..Len(text) : text[i].t = t}
    IN  IF at = {} THEN -1 ELSE (CHOOSE i \in at : \A j \in at : i >= j) - 1

\* text[start:end]
Slice(text, start, end) == SubSeq(text, start + 1, end)

\* json.loads: the parsed value, or JSONDecodeError.
json_loads(text) ==
    IF Len(text) = 2 /\ text[1].t = "LB" /\ text[2].t = "RB"
    THEN [exc |-> "none", isdict |-> TRUE, d |-> EmptyDict]
    ELSE IF Len(text) = 3 /\ text[1].t = "LB" /\ text[2].t = "MEMBERS"
                          /\ text[3].t = "RB"
    THEN [exc |-> "none", isdict |-> TRUE, d |-> text[2].m]
    ELSE IF Len(text) = 1 /\ text[1].t = "SCALAR"
    THEN [exc |-> "none", isdict |-> FALSE, d |-> EmptyDict]
    ELSE [exc |-> "JSONDecodeError", isdict |-> FALSE, d |-> EmptyDict]

\* dict.get(key, default)
DictGet(d, key, default) == IF key \in DOMAIN d THEN d[key] ELSE default

NumericStrings == ("0.9" :> 90) @@ ("1" :> 100)

\* float(v): a float (nan, or a value in hundredths), or the exception raised.
Float(v) ==
    CASE v.type = "number" -> [exc |-> "none", nan |-> FALSE, val |-> v.num]
      [] v.type = "nan"    -> [exc |-> "none", nan |-> TRUE, val |-> 0]
      [] v.type = "null"   -> [exc |-> "TypeError", nan |-> FALSE, val |-> 0]
      [] OTHER             ->
            IF v.str \in DOMAIN NumericStrings
            THEN [exc |-> "none", nan |-> FALSE, val |-> NumericStrings[v.str]]
            ELSE [exc |-> "ValueError", nan |-> FALSE, val |-> 0]

\* The variant that does not clamp.
ClampMissing(f) == IF f.nan THEN 100 ELSE f.val

\* max(0.0, min(1.0, confidence)); every comparison with nan is false, so
\* min(1.0, nan) is 1.0.
Clamp(f) == IF f.nan THEN PyMax(0, 100) ELSE PyMax(0, PyMin(100, f.val))

NoDecision == AgentRoutingDecision("none", 0, "")

(***************************************************************************)
(* OrchestratorAgent.route_query                                           *)
(***************************************************************************)
\* Lines 79-87: the span from the first "{" to the last "}", else the whole.
ExtractJson(response_text) ==
    LET json_start == Find(response_text, "LB")
        json_end == RFind(response_text, "RB") + 1
    IN  IF json_start >= 0 /\ json_end > json_start
        THEN json_loads(Slice(response_text, json_start, json_end))
        ELSE json_loads(response_text)

\* Lines 89-104: validate the fields and build the decision.
BuildDecision(routing_data) ==
    LET raw == DictGet(routing_data, "agent_type", JStr("travel_support"))
        agent_type == IF raw.type = "string" /\ raw.str \in AgentTypes
                      THEN raw.str ELSE "travel_support"
        conf == Float(DictGet(routing_data, "confidence", JNum(70)))
        reasoning == DictGet(routing_data, "reasoning",
                             JStr("No reasoning provided"))
    IN  IF conf.exc # "none"
        THEN [exc |-> conf.exc, decision |-> NoDecision]
        ELSE [exc |-> "none",
              decision |-> AgentRoutingDecision(agent_type, Clamp(conf),
                                                reasoning.str)]

\* The try block, lines 69-109: the decision, or the exception raised in it.
PrimaryPath(outcome) ==
    IF outcome.kind = "exception"
    THEN [exc |-> "ServiceError", decision |-> NoDecision]
    ELSE LET parsed == ExtractJson(outcome.text)
         IN  IF parsed.exc # "none"
             THEN [exc |-> parsed.exc, decision |-> NoDecision]
             ELSE IF ~parsed.isdict
             THEN [exc |-> "AttributeError", decision |-> NoDecision]
             ELSE BuildDecision(parsed.d)

\* The variant whose only handler is `except json.JSONDecodeError`.
route_query_narrow(query, outcome) ==
    LET p == PrimaryPath(outcome)
    IN  IF p.exc = "none"
        THEN [raised |-> FALSE, fallback |-> FALSE, decision |-> p.decision]
        ELSE IF p.exc = "JSONDecodeError"
        THEN [raised |-> FALSE, fallback |-> TRUE,
              decision |-> _fallback_routing(query)]
        ELSE [raised |-> TRUE, fallback |-> FALSE, decision |-> NoDecision]

\* Both handlers (json.JSONDecodeError, Exception) return the fallback; every
\* exception of the try block derives from Exception.
route_query(query, outcome) ==
    LET p == PrimaryPath(outcome)
    IN  IF p.exc = "none"
        THEN [raised |-> FALSE, fallback |-> FALSE, decision |-> p.decision]
        ELSE IF p.exc = "JSONDecodeError"
        THEN [raised |-> FALSE, fallback |-> TRUE,
              decision |-> _fallback_routing(query)]
        ELSE [raised |-> FALSE, fallback |-> TRUE,
              decision |-> _fallback_routing(query)]

(***************************************************************************)
(* Inputs of the router: query texts and classifier outcomes.              *)
(***************************************************************************)
ScenarioA == "How much does the Bali package cost?"
ScenarioB == "cancel my policy"

Vocabulary == {"refund", "How much", "policy", "payment invoice"}

RECURSIVE Phrases(_)
\* The texts of exactly n vocabulary words, separated by single spaces.
Phrases(n) ==
    IF n = 1 THEN Vocabulary
    ELSE {p \o " " \o w : p \in Phrases(n - 1), w \in Vocabulary}

\* The two scenarios, a query without any keyword, and the phrases.
Queries ==
    {ScenarioA, ScenarioB, "Bali"} \cup UNION {Phrases(n) : n \in 1..MaxWords}

\* Queries of the calls made between the calls under study.
OtherQueries == {"refund", "Bali"}

AgentTypeValues ==
    {JStr("travel_support"), JStr("booking_payments"), JStr("policy"),
     JStr("billing"), JNull}

ConfidenceValues ==
    {JNum(-50), JNum(35), JNum(100), JNum(150), JNaN, JNull, JStr("0.9"),
     JStr("high")}

ReasoningField == "reasoning" :> JStr("because")

\* The members of the replies: every category value with one confidence,
\* every confidence value with one category, the two out of range together,
\* and objects with members missing.
ReplyDicts ==
    {("agent_type" :> a) @@ ("confidence" :> JNum(35)) @@ ReasoningField :
        a \in AgentTypeValues}
    \cup {("agent_type" :> JStr("travel_support")) @@ ("confidence" :> c)
            @@ ReasoningField : c \in ConfidenceValues}
    \cup {("agent_type" :> JStr("billing")) @@ ("confidence" :> JNum(150))
            @@ ReasoningField,
          ("confidence" :> JNum(35)) @@ ReasoningField,
          ("agent_type" :> JStr("booking_payments")) @@ ReasoningField,
          "agent_type" :> JStr("policy")}

GoodDict ==
    ("agent_type" :> JStr("policy")) @@ ("confidence" :> JNum(35)) @@ ReasoningField

ReplyTexts ==
    {<<LB, Members(d), RB>> : d \in ReplyDicts}
    \cup { <<>>, <<Prose>>, <<Scalar>>, <<LB, RB>>, <<LB, Prose, RB>>,
           <<LB, Members(GoodDict)>>, <<RB, Prose, LB>>,
           <<Prose, LB, Members(GoodDict), RB, Prose>>,
           <<LB, Members(GoodDict), RB, Prose, LB, Prose, RB, Prose>> }

Reply(text) == [kind |-> "reply", text |-> text]
ServiceException == [kind |-> "exception", text |-> <<>>]
NoOutcome == [kind |-> "none", text |-> <<>>]

ClassifierOutcomes == {ServiceException} \cup {Reply(t) : t \in ReplyTexts}

(***************************************************************************)
(* Messages and the GraphState (chains/graph.py).  Python's None is the    *)
(* decision NoDecision for routing_decision and the text "None" for        *)
(* current_agent; a current_query or response of None is the empty text,  *)
(* which the code tests the same way (`if not query`).                     *)
(***************************************************************************)
Message(role, content) == [role |-> role, content |-> content]

GraphState(messages, current_query, routing_decision, current_agent, response) ==
    [messages |-> messages, current_query |-> current_query,
     routing_decision |-> routing_decision, current_agent |-> current_agent,
     response |-> response]

NoState == GraphState(<<>>, "", NoDecision, "None", "")

\* main.format_state_for_graph
format_state_for_graph(messages, query) ==
    GraphState(messages, query, NoDecision, "None", "")

\* One call on a service or cache: the service, how the call ended, and for a
\* generation call the conversation history placed in the prompt.
Call(service, outcome, history) ==
    [service |-> service, outcome |-> outcome, history |-> history]

(***************************************************************************)
(* Static document cache (retrieval/cag.py) as the agents use it.  The     *)
(* policy corpus is cached when the agents are constructed.                *)
(***************************************************************************)
PolicyDocuments ==
    << "Cancellation: full refund up to 48 hours before.",
       "Baggage policy: one carry-on bag is free.",
       "Insurance covers emergencies." >>

RECURSIVE Split(_)
\* str.split(): the maximal runs of non-whitespace characters.
Split(s) ==
    LET t == LStrip(s)
    IN  IF t = "" THEN <<>>
        ELSE LET ws == {i \in 1..Len(t) : SubSeq(t, i, i) \in Whitespace}
                 n == IF ws = {} THEN Len(t) + 1
                      ELSE CHOOSE i \in ws : \A j \in ws : i <= j
             IN  <<SubSeq(t, 1, n - 1)>> \o Split(SubSeq(t, n, Len(t)))

\* The variant that keeps a document only when it contains every term.
search_cached_every_term(query, documents, case_sensitive) ==
    LET query_terms == IF case_sensitive THEN Split(query) ELSE Split(Lower(query))
        Matches(doc) ==
            LET doc_lower == IF case_sensitive THEN doc ELSE Lower(doc)
            IN  \A i \in 1..Len(query_terms) : Contains(doc_lower, query_terms[i])
    IN  SelectSeq(documents, Matches)

\* CAGRetriever.search_cached over the cached documents of a category.
search_cached(query, documents, case_sensitive) ==
    LET query_terms == IF case_sensitive THEN Split(query) ELSE Split(Lower(query))
        Matches(doc) ==
            LET doc_lower == IF case_sensitive THEN doc ELSE Lower(doc)
            IN  \E i \in 1..Len(query_terms) : Contains(doc_lower, query_terms[i])
    IN  SelectSeq(documents, Matches)

(***************************************************************************)
(* CAGRetriever (retrieval/cag.py) as an object: load_documents reads the  *)
(* corpus directory, cache_documents stores what it read under a category. *)
(***************************************************************************)
Categories == {"policy", "booking_payments"}

File(readable, text) == [readable |-> readable, text |-> text]

WordChars ==
    DOMAIN UpperToLower \cup {UpperToLower[c] : c \in DOMAIN UpperToLower}
    \cup {"0", "1", "2", "3", "4", "5", "6", "7", "8", "9", "_"}

\* The last position of the match of #\w+:\s*.+\n at the start of t, 0 when
\* there is none: "#", word characters up to a colon, whitespace (taken
\* greedily, given back as needed), at least one character other than a
\* newline up to the end of that line, and the newline.
MarkerEnd(t) ==
    IF Len(t) < 5 \/ SubSeq(t, 1, 1) # "#" THEN 0
    ELSE LET nonword == {i \in 2..Len(t) : SubSeq(t, i, i) \notin WordChars}
             colon == IF nonword = {} THEN 0
                      ELSE CHOOSE i \in nonword : \A j \in nonword : i <= j
         IN  IF colon < 3 \/ SubSeq(t, colon, colon) # ":" THEN 0
             ELSE LET starts ==
                          {b \in (colon + 1)..Len(t) :
                              /\ \A i \in (colon + 1)..(b - 1) :
                                     SubSeq(t, i, i) \in Whitespace
                              /\ SubSeq(t, b, b) # "\n"
                              /\ \E e \in (b + 1)..Len(t) : SubSeq(t, e, e) = "\n"}
                  IN  IF starts = {} THEN 0
                      ELSE LET b == CHOOSE x \in starts : \A y \in starts : y <= x
                               ends == {e \in (b + 1)..Len(t) : SubSeq(t, e, e) = "\n"}
                           IN  CHOOSE e \in ends : \A f \in ends : e <= f

RECURSIVE RemoveMarkers(_)
\* re.sub(r"#\w+:\s*.+\n", "", content)
RemoveMarkers(t) ==
    IF t = "" THEN ""
    ELSE LET e == MarkerEnd(t)
         IN  IF e > 0 THEN RemoveMarkers(SubSeq(t, e + 1, Len(t)))
             ELSE SubSeq(t, 1, 1) \o RemoveMarkers(SubSeq(t, 2, Len(t)))

\* The variant that hands back one blank document when the directory is
\* missing or holds no text file.
load_documents_blank(dsk) ==
    IF ~dsk.exists THEN <<"">>
    ELSE IF dsk.files = <<>> THEN <<"">>
    ELSE LET Readable(f) == f.readable
             read == SelectSeq(dsk.files, Readable)
         IN  [i \in 1..Len(read) |-> Strip(RemoveMarkers(read[i].text))]

\* CAGRetriever.load_documents: whatever the category, the cleaned texts of the
\* files of the directory that could be read.
load_documents(dsk) ==
    IF ~dsk.exists THEN <<>>
    ELSE IF dsk.files = <<>> THEN <<>>
    ELSE LET Readable(f) == f.readable
             read == SelectSeq(dsk.files, Readable)
         IN  [i \in 1..Len(read) |-> Strip(RemoveMarkers(read[i].text))]

NotCached == [present |-> FALSE, docs |-> <<>>]

\* One statement after another: the value of the first is computed once and
\* handed to the rest.
Then(value, Rest(_)) == CHOOSE r \in {Rest(v) : v \in {value}} : TRUE

\* A CAGRetriever after __init__.
NewCAGRetriever ==
    [cached_documents |-> [c \in Categories |-> NotCached],
     loads |-> [c \in Categories |-> 0]]

\* The variant that loads and stores whether or not the category is cached.
cache_documents_always(c, agent_type, dsk) ==
    [cached_documents |->
        [c.cached_documents EXCEPT
            ![agent_type] = [present |-> TRUE, docs |-> load_documents(dsk)]],
     loads |-> [c.loads EXCEPT ![agent_type] = @ + 1]]

\* CAGRetriever.cache_documents on the retriever c.
cache_documents(c, agent_type, dsk) ==
    IF ~c.cached_documents[agent_type].present
    THEN [cached_documents |->
             [c.cached_documents EXCEPT
                 ![agent_type] = [present |-> TRUE, docs |-> load_documents(dsk)]],
          loads |-> [c.loads EXCEPT ![agent_type] = @ + 1]]
    ELSE c

\* CAGRetriever.get_cached_documents: the retriever afterwards and the result.
get_cached_documents(c, agent_type, dsk) ==
    Then(IF ~c.cached_documents[agent_type].present
         THEN cache_documents(c, agent_type, dsk)
         ELSE c,
         LAMBDA after :
             [cag |-> after,
              result |-> IF after.cached_documents[agent_type].present
                         THEN after.cached_documents[agent_type].docs
                         ELSE <<>>])

\* CAGRetriever.search_cached on the retriever c.
CAGRetriever_search_cached(c, query, agent_type, dsk) ==
    Then(get_cached_documents(c, agent_type, dsk),
         LAMBDA got :
             [cag |-> got.cag, result |-> search_cached(query, got.result, FALSE)])

\* The variant that removes every entry whatever the category given.
clear_cache_all(c, agent_type) == NewCAGRetriever

\* CAGRetriever.clear_cache(agent_type); agent_type "" stands for None.
clear_cache(c, agent_type) ==
    IF agent_type # ""
    THEN [cached_documents |-> [c.cached_documents EXCEPT ![agent_type] = NotCached],
          loads |-> [c.loads EXCEPT ![agent_type] = 0]]
    ELSE NewCAGRetriever

(***************************************************************************)
(* Semantic retriever (retrieval/rag.py).  env.embed and env.store are the *)
(* outcomes of the embedding call and of the vector-store query.           *)
(***************************************************************************)
Chunk == [content |-> "Bali is warm all year.", source |-> "cached"]

\* The variant that asks the embedding service a second time after a failure.
RAGRetriever_retrieve_retry(env) ==
    IF env.embed = "fail"
    THEN [docs |-> <<>>,
          calls |-> <<Call("embed", "fail", <<>>), Call("embed", "fail", <<>>)>>]
    ELSE [docs |-> IF env.store = "ok" THEN <<Chunk, Chunk>> ELSE <<>>,
          calls |-> <<Call("embed", "ok", <<>>), Call("store", env.store, <<>>)>>]

\* RAGRetriever.retrieve: the chunks, and the calls made.
RAGRetriever_retrieve(env) ==
    IF env.embed = "fail"
    THEN [docs |-> <<>>, calls |-> <<Call("embed", "fail", <<>>)>>]
    ELSE [docs |-> IF env.store = "ok" THEN <<Chunk, Chunk>> ELSE <<>>,
          calls |-> <<Call("embed", "ok", <<>>), Call("store", env.store, <<>>)>>]

(***************************************************************************)
(* RAGRetriever.retrieve and retrieve_with_scores on the store's result    *)
(* itself.  results is the first row of what collection.query returned:    *)
(* whether it has the key "documents", the documents, the metadatas (or    *)
(* None) and the distances (<<>> when the store gave none).  Distances,    *)
(* similarities and thresholds are in hundredths.  A chunk is a dict: keys *)
(* tells which of "distance" and "similarity" it has.                      *)
(***************************************************************************)
StoreException ==
    [kind |-> "exception", documents_key |-> FALSE, documents |-> <<>>,
     metadatas_present |-> FALSE, metadatas |-> <<>>, distances |-> <<>>]

RagChunk(content, metadata, keys, distance, similarity) ==
    [content |-> content, metadata |-> metadata, keys |-> keys,
     distance |-> distance, similarity |-> similarity]

\* rag.py 84-95: the chunks built from results, or the exception an absent
\* key or a short row raises.
format_results(results) ==
    IF ~results.documents_key
    THEN [raised |-> TRUE, documents |-> <<>>]
    ELSE IF \/ results.metadatas_present
               /\ Len(results.metadatas) < Len(results.documents)
            \/ results.distances # <<>>
               /\ Len(results.distances) < Len(results.documents)
    THEN [raised |-> TRUE, documents |-> <<>>]
    ELSE [raised |-> FALSE,
          documents |->
              [i \in 1..Len(results.documents) |->
                  RagChunk(results.documents[i],
                           IF results.metadatas_present
                           THEN results.metadatas[i] ELSE "{}",
                           IF results.distances # <<>> THEN {"distance"} ELSE {},
                           IF results.distances # <<>> THEN results.distances[i] ELSE 0,
                           0)]]

\* The variant whose try covers the two service calls only.
RAGRetriever_retrieve_chunks_unguarded(embed, store) ==
    IF embed = "fail" \/ store.kind = "exception"
    THEN [raised |-> FALSE, documents |-> <<>>]
    ELSE format_results(store)

\* RAGRetriever.retrieve: everything happens inside one try whose handler
\* returns [].
RAGRetriever_retrieve_chunks(embed, store) ==
    IF embed = "fail" \/ store.kind = "exception"
    THEN [raised |-> FALSE, documents |-> <<>>]
    ELSE Then(format_results(store), LAMBDA formatted :
              IF formatted.raised
              THEN [raised |-> FALSE, documents |-> <<>>]
              ELSE formatted)

\* The variant without the clamp.
Similarity_unclamped(distance) == 100 - distance

\* similarity = 1 - distance if distance <= 1.0 else 0
Similarity(distance) == IF distance <= 100 THEN 100 - distance ELSE 0

\* RAGRetriever.retrieve_with_scores on the chunks retrieve returned.
retrieve_with_scores(documents, score_threshold) ==
    LET Score(doc) == Similarity(IF "distance" \in doc.keys THEN doc.distance ELSE 100)
        Kept(doc) == Score(doc) >= score_threshold
        filtered_docs == SelectSeq(documents, Kept)
    IN  [i \in 1..Len(filtered_docs) |->
            [filtered_docs[i] EXCEPT !.keys = @ \cup {"similarity"},
                                     !.similarity = Score(filtered_docs[i])]]

(***************************************************************************)
(* HybridRetriever (retrieval/hybrid.py): its fields h, and its            *)
(* CAGRetriever c.                                                         *)
(***************************************************************************)
\* A HybridRetriever after __init__.
NewHybridRetriever ==
    [static_policy_cache |-> <<>>, cache_initialized |-> FALSE, filters |-> 0]

relevance_keywords == <<"payment", "cancellation", "refund", "booking", "terms">>

\* The policy documents containing at least one relevance keyword.
relevant_policies(policy_docs) ==
    LET Relevant(doc) ==
            LET doc_lower == Lower(doc)
            IN  \E i \in 1..Len(relevance_keywords) :
                    Contains(doc_lower, relevance_keywords[i])
    IN  SelectSeq(policy_docs, Relevant)

\* The variant that never sets cache_initialized.
initialize_cache_noflag(h, c, dsk) ==
    Then(cache_documents(c, "policy", dsk), LAMBDA cached :
    Then(get_cached_documents(cached, "policy", dsk), LAMBDA got :
         [hybrid |-> [static_policy_cache |-> relevant_policies(got.result),
                      cache_initialized |-> FALSE,
                      filters |-> h.filters + 1],
          cag |-> got.cag]))

\* HybridRetriever.initialize_cache: the retriever and its CAGRetriever
\* afterwards.
initialize_cache(h, c, dsk) ==
    IF ~h.cache_initialized
    THEN Then(cache_documents(c, "policy", dsk), LAMBDA cached :
         Then(get_cached_documents(cached, "policy", dsk), LAMBDA got :
              [hybrid |-> [static_policy_cache |-> relevant_policies(got.result),
                           cache_initialized |-> TRUE,
                           filters |-> h.filters + 1],
               cag |-> got.cag]))
    ELSE [hybrid |-> h, cag |-> c]

StaticDoc(policy_doc) ==
    [content |-> policy_doc, agent_type |-> "policy",
     document_type |-> "static_policy", source |-> "cached"]

\* The variant without the limit.
First3_unlimited(seq) == seq

First3(seq) == SubSeq(seq, 1, PyMin(3, Len(seq)))

\* The variant that returns at the failure of the semantic retrieval, before
\* the cached policies are searched.
HybridRetriever_retrieve_abort(h, c, query, include_static, dsk, env) ==
    Then(initialize_cache(h, c, dsk), LAMBDA init :
    Then(RAGRetriever_retrieve(env), LAMBDA dynamic_docs :
    Then(IF include_static /\ dynamic_docs.docs # <<>>
         THEN CAGRetriever_search_cached(init.cag, query, "policy", dsk)
         ELSE [cag |-> init.cag, result |-> <<>>], LAMBDA searched :
         [hybrid |-> init.hybrid,
          cag |-> searched.cag,
          results |-> [dynamic |-> dynamic_docs.docs,
                       static |-> [i \in 1..Len(First3(searched.result)) |->
                                      StaticDoc(First3(searched.result)[i])]],
          calls |-> dynamic_docs.calls])))

\* HybridRetriever.retrieve: initialisation on first use, the semantic
\* retrieval inside a try, the search of the cached policies.
HybridRetriever_retrieve(h, c, query, include_static, dsk, env) ==
    Then(initialize_cache(h, c, dsk), LAMBDA init :
    Then(RAGRetriever_retrieve(env), LAMBDA dynamic_docs :
    Then(IF include_static
         THEN CAGRetriever_search_cached(init.cag, query, "policy", dsk)
         ELSE [cag |-> init.cag, result |-> <<>>], LAMBDA searched :
    Then(First3(searched.result), LAMBDA matching_policies :
         [hybrid |-> init.hybrid,
          cag |-> searched.cag,
          results |-> [dynamic |-> dynamic_docs.docs,
                       static |-> [i \in 1..Len(matching_policies) |->
                                      StaticDoc(matching_policies[i])]],
          calls |-> dynamic_docs.calls]))))

\* HybridRetriever.get_static_policies: a copy of static_policy_cache.
get_static_policies(h, c, dsk) ==
    Then(IF ~h.cache_initialized THEN initialize_cache(h, c, dsk)
         ELSE [hybrid |-> h, cag |-> c],
         LAMBDA init :
             [hybrid |-> init.hybrid, cag |-> init.cag,
              result |-> init.hybrid.static_policy_cache])

\* HybridRetriever.clear_cache
HybridRetriever_clear_cache(h, c) ==
    [hybrid |-> NewHybridRetriever, cag |-> clear_cache(c, "")]

(***************************************************************************)
(* Answer generation, shared by the three agents'                          *)
(* generate_response: the prompt's history window, the call, the apology.  *)
(***************************************************************************)
GenerationEmptyApology ==
    "I apologize, but I couldn't generate a response. Please try again or contact customer support."
GenerationErrorApology ==
    "I apologize, but I encountered an error while generating a response. Please try again or contact customer support."

Last4(seq) == SubSeq(seq, PyMax(1, Len(seq) - 3), Len(seq))

\* The variant whose window is the last 4 user messages of the conversation.
HistoryWindow_users(conversation_history) ==
    LET IsUser(msg) == msg.role = "user"
        users == Last4(SelectSeq(conversation_history, IsUser))
    IN  [i \in 1..Len(users) |-> users[i].content]

\* for msg in conversation_history[-4:]: the user messages' contents.
HistoryWindow(conversation_history) ==
    LET IsUser(msg) == msg.role = "user"
        users == SelectSeq(Last4(conversation_history), IsUser)
    IN  [i \in 1..Len(users) |-> users[i].content]

\* The variant that returns the generated text as it is, empty or not.
Generate_noapology(conversation_history, gen) ==
    LET call == Call("generate", gen.kind, HistoryWindow(conversation_history))
    IN  IF gen.kind = "exception"
        THEN [response |-> GenerationErrorApology, calls |-> <<call>>]
        ELSE [response |-> Strip(gen.content), calls |-> <<call>>]

\* The variant that tests the generated text for emptiness without stripping.
Generate_nostrip(conversation_history, gen) ==
    LET call == Call("generate", gen.kind, HistoryWindow(conversation_history))
    IN  IF gen.kind = "exception"
        THEN [response |-> GenerationErrorApology, calls |-> <<call>>]
        ELSE IF gen.content = ""
        THEN [response |-> GenerationEmptyApology, calls |-> <<call>>]
        ELSE [response |-> gen.content, calls |-> <<call>>]

\* The try block of generate_response: llm.invoke, strip, the apologies.
Generate(conversation_history, gen) ==
    LET call == Call("generate", gen.kind, HistoryWindow(conversation_history))
        response_content == IF gen.content # "" THEN Strip(gen.content) ELSE ""
    IN  IF gen.kind = "exception"
        THEN [response |-> GenerationErrorApology, calls |-> <<call>>]
        ELSE IF response_content = ""
        THEN [response |-> GenerationEmptyApology, calls |-> <<call>>]
        ELSE [response |-> response_content, calls |-> <<call>>]

\* TravelSupportAgent.generate_response: semantic retrieval, then generation.
TravelSupportAgent_generate_response(query, conversation_history, env) ==
    LET retrieved == RAGRetriever_retrieve(env)
        g == Generate(conversation_history, env.gen)
    IN  [raised |-> FALSE, response |-> g.response,
         calls |-> retrieved.calls \o g.calls]

\* BookingPaymentsAgent.generate_response: HybridRetriever.retrieve (semantic
\* retrieval inside a try, then a search of the cached policies), then
\* generation.
BookingPaymentsAgent_generate_response(query, conversation_history, env) ==
    LET dynamic == RAGRetriever_retrieve(env)
        matching_policies == search_cached(query, PolicyDocuments, FALSE)
        static == Call("search_cached",
                       IF matching_policies = <<>> THEN "empty" ELSE "ok", <<>>)
        g == Generate(conversation_history, env.gen)
    IN  [raised |-> FALSE, response |-> g.response,
         calls |-> dynamic.calls \o <<static>> \o g.calls]

\* The variant that also asks the semantic retriever.
PolicyAgent_generate_response_semantic(query, conversation_history, env) ==
    LET retrieved == RAGRetriever_retrieve(env)
        g == Generate(conversation_history, env.gen)
    IN  [raised |-> FALSE, response |-> g.response,
         calls |-> retrieved.calls \o <<Call("search_cached", "ok", <<>>)>> \o g.calls]

\* PolicyAgent.generate_response: a search of the cached policies, all cached
\* documents when nothing matches, then generation.
PolicyAgent_generate_response(query, conversation_history, env) ==
    LET matching_policies == search_cached(query, PolicyDocuments, FALSE)
        search == IF matching_policies = <<>>
                  THEN << Call("search_cached", "empty", <<>>),
                          Call("get_cached_documents", "ok", <<>>) >>
                  ELSE << Call("search_cached", "ok", <<>>) >>
        g == Generate(conversation_history, env.gen)
    IN  [raised |-> FALSE, response |-> g.response, calls |-> search \o g.calls]

(***************************************************************************)
(* The nodes of the graph (chains/graph.py, create_agent_graph).  A node   *)
(* operator gives the state the node returns, the calls it made and        *)
(* whether an exception left it.                                           *)
(***************************************************************************)
NoQueryApology == "I apologize, but I couldn't process your query."
TravelSupportErrorApology ==
    "I apologize, but I encountered an error while processing your travel support question. Please try again."
BookingPaymentsErrorApology ==
    "I apologize, but I encountered an error while processing your booking/payment question. Please try again."
PolicyErrorApology ==
    "I apologize, but I encountered an error while processing your policy question. Please try again."

\* The variant that takes the last message of the conversation, whoever
\* wrote it.
entry_node_lastmessage(st) ==
    IF st.messages # <<>>
    THEN [st EXCEPT !.current_query = st.messages[Len(st.messages)].content]
    ELSE [st EXCEPT !.current_query = ""]

entry_node(st) ==
    LET IsUser(msg) == msg.role = "user"
        user_messages == SelectSeq(st.messages, IsUser)
    IN  IF user_messages # <<>>
        THEN [st EXCEPT !.current_query = user_messages[Len(user_messages)].content]
        ELSE [st EXCEPT !.current_query = ""]

\* The variant without the `if not query` guard.
orchestrator_node_noguard(st, outcome) ==
    LET res == route_query(st.current_query, outcome)
    IN  [raised |-> FALSE,
         calls |-> <<Call("classify", outcome.kind, <<>>)>>,
         state |-> [st EXCEPT !.routing_decision = res.decision,
                              !.current_agent = res.decision.agent_type]]

orchestrator_node(st, outcome) ==
    IF st.current_query = ""
    THEN [raised |-> FALSE, calls |-> <<>>, state |-> st]
    ELSE LET res == route_query(st.current_query, outcome)
             made == <<Call("classify", outcome.kind, <<>>)>>
         IN  IF ~res.raised
             THEN [raised |-> FALSE, calls |-> made,
                   state |-> [st EXCEPT !.routing_decision = res.decision,
                                        !.current_agent = res.decision.agent_type]]
             ELSE [raised |-> FALSE, calls |-> made,
                   state |-> [st EXCEPT
                       !.routing_decision =
                           AgentRoutingDecision("travel_support", 50,
                               "Fallback due to orchestrator error"),
                       !.current_agent = "travel_support"]]

\* The variant that ignores the decision.
route_agent_default(st) == "travel_support"

route_agent(st) ==
    IF st.routing_decision = NoDecision THEN "travel_support"
    ELSE st.routing_decision.agent_type

\* The variant that stores the answer without appending it.
CategoryNode_noappend(st, r, error_apology) ==
    IF st.current_query = ""
    THEN [raised |-> FALSE, calls |-> <<>>,
          state |-> [st EXCEPT !.response = NoQueryApology]]
    ELSE [raised |-> FALSE, calls |-> r.calls,
          state |-> [st EXCEPT !.response = r.response]]

\* The body shared by the three category nodes: the guard on the query, the
\* agent's generate_response inside a try, the append of the answer.
CategoryNode(st, r, error_apology) ==
    IF st.current_query = ""
    THEN [raised |-> FALSE, calls |-> <<>>,
          state |-> [st EXCEPT !.response = NoQueryApology]]
    ELSE IF ~r.raised
    THEN [raised |-> FALSE, calls |-> r.calls,
          state |-> [st EXCEPT
              !.response = r.response,
              !.messages = Append(st.messages, Message("assistant", r.response))]]
    ELSE [raised |-> FALSE, calls |-> r.calls,
          state |-> [st EXCEPT !.response = error_apology]]

travel_support_node(st, env) ==
    CategoryNode(st,
        TravelSupportAgent_generate_response(st.current_query, st.messages, env),
        TravelSupportErrorApology)

booking_payments_node(st, env) ==
    CategoryNode(st,
        BookingPaymentsAgent_generate_response(st.current_query, st.messages, env),
        BookingPaymentsErrorApology)

policy_node(st, env) ==
    CategoryNode(st,
        PolicyAgent_generate_response(st.current_query, st.messages, env),
        PolicyErrorApology)

\* The variant with an edge from a category node back to the orchestrator.
NextNode_retry(node, st) ==
    CASE node = "entry" -> "orchestrator"
      [] node = "orchestrator" -> route_agent(st)
      [] OTHER -> "orchestrator"

\* The edges: entry -> orchestrator, the conditional edges of route_agent,
\* category node -> END.
NextNode(node, st) ==
    CASE node = "entry" -> "orchestrator"
      [] node = "orchestrator" -> route_agent(st)
      [] OTHER -> "END"

(***************************************************************************)
(* Inputs of a request.                                                    *)
(***************************************************************************)
ScenarioE == "What is your baggage policy?"

UserTexts == {"", ScenarioE, "Bali"}

Messages ==
    {Message("user", t) : t \in UserTexts}
    \cup {Message("assistant", "Hello! How can I help you today?"),
          Message("system", "Be brief.")}

Conversations == UNION {[1..n -> Messages] : n \in 0..MaxMessages}

\* ChatRequest: a message of at least one character and a prior conversation.
ChatRequests ==
    {[message |-> m, history |-> h] :
        m \in UserTexts \ {""},
        h \in {c \in Conversations : Len(c) < MaxMessages}}

\* What the classification service answers within a request.
GraphClassifierOutcomes ==
    {ServiceException, Reply(<<Prose>>)}
    \cup {Reply(<<LB, Members(("agent_type" :> JStr(a)) @@ ("confidence" :> JNum(150))
                                 @@ ReasoningField), RB>>) :
            a \in AgentTypes \cup {"billing"}}

GenerationOutcomes ==
    {[kind |-> "reply", content |-> "One carry-on bag is free. "],
     [kind |-> "reply", content |-> ""],
     [kind |-> "reply", content |-> " \n"],
     [kind |-> "exception", content |-> ""]}

\* The outcomes of the embedding call, the vector-store query and the
\* generation call.
Environments ==
    [embed : {"ok", "fail"}, store : {"ok", "fail"}, gen : GenerationOutcomes]

NoHttp == [status |-> "none", message |-> "", agent_type |-> "None"]

\* No generation call has been made.
NoGeneration == [kind |-> "none", content |-> ""]

\* The variables of the specifications other than SpecRouter and Spec.
auxVars == <<historyVars, cacheVars, raceVars, callVars>>

NoPrompt == [built |-> FALSE, agent |-> "None", history |-> <<>>]

IdleHistory ==
    /\ h_conversation = <<>>
    /\ h_prompt = NoPrompt

\* The corpus directory does not exist.
MissingDirectory == [exists |-> FALSE, files |-> <<>>]

NoCacheCall == [op |-> "none", category |-> ""]

\* The retrievers as constructed, no call made on them yet.
\* The last call returned nothing.
NoResult ==
    [query |-> "", include_static |-> FALSE, embed |-> "none", store |-> "none",
     docs |-> <<>>, dynamic |-> <<>>, static |-> <<>>]

NewRetrievers ==
    /\ cag = [r \in {"policy_agent", "hybrid"} |-> NewCAGRetriever]
    /\ hybrid = NewHybridRetriever
    /\ c_last = NoCacheCall
    /\ c_result = NoResult
    /\ c_returned = [c \in Categories |-> {}]
    /\ invalidated = FALSE
    /\ graph_created = FALSE

IdleCache == disk = MissingDirectory /\ NewRetrievers

Threads == {"request1", "request2"}

IdleThread ==
    [task |-> "none", pc |-> "idle", stack |-> <<>>, documents |-> <<>>,
     next_file |-> 0, loaded |-> FALSE, result |-> <<>>]

IdleRace == threads = [t \in Threads |-> IdleThread]

\* No RAGRetriever method has been called.
NoRagCall ==
    [embed |-> "ok", store |-> StoreException, score_threshold |-> 0,
     op |-> "none", raised |-> FALSE, result |-> <<>>]

\* No search has been made.
NoSearch ==
    [documents |-> <<>>, query |-> "", case_sensitive |-> FALSE,
     searched |-> FALSE, result |-> <<>>]

\* The service before its first request: whether the vector collection
\* exists, main.agent_graph (FALSE is None), and what each request got.
Started ==
    [collection |-> TRUE, agent_graph |-> FALSE, created |-> 0, responses |-> <<>>]

\* No vector-store query has been built.
NoWhere ==
    [agent_type |-> "none", filter_metadata |-> <<>>, stored |-> {},
     issued |-> FALSE, where |-> <<>>, returned |-> {}]

\* No request has been received: no session, no request in either slot.
NoRequest ==
    [pc |-> "idle", endpoint |-> "none", session_id |-> "", start |-> <<>>,
     message |-> "", messages |-> <<>>, answer |-> "", status |-> "none",
     stored |-> <<>>]

NoChat ==
    [sessions |-> <<>>, created |-> 0, shared |-> FALSE,
     requests |-> [slot \in {"first", "second"} |-> NoRequest]]

NoIngest == [data_dir |-> <<>>, collection |-> <<>>, runs |-> 0]

IdleMore == whr = NoWhere /\ chat = NoChat /\ ingest = NoIngest

IdleCalls == rag = NoRagCall /\ srch = NoSearch /\ startup = Started /\ IdleMore

IdleAux == IdleHistory /\ IdleCache /\ IdleRace /\ IdleCalls

(***************************************************************************)
(* SpecRouter: calls on one OrchestratorAgent.  route_query is called on   *)
(* the query under study with any classifier outcome; _fallback_routing is *)
(* called on it directly, and on other queries in between.                 *)
(***************************************************************************)
NoCall == [op |-> "none", query |-> "", outcome |-> NoOutcome,
           raised |-> FALSE, decision |-> NoDecision]

IdleGraph ==
    /\ pc = "idle"
    /\ via = "none"
    /\ state = NoState
    /\ input = NoState
    /\ executed = <<>>
    /\ calls = <<>>
    /\ http = NoHttp
    /\ generated = NoGeneration

RouterInit ==
    /\ r_query \in Queries
    /\ r_last = NoCall
    /\ r_fallback = {}
    /\ r_repeat = "none"
    /\ IdleGraph
    /\ IdleAux

\* The history of the fallback calls on r_query after one more of them / after
\* any other call.
RepeatAfterFallback == IF r_repeat \in {"between", "again"} THEN "again" ELSE "first"
RepeatAfterOther == IF r_repeat = "first" THEN "between" ELSE r_repeat

\* route_query(r_query) under one classifier outcome.
CallRouteQuery ==
    /\ \E outcome \in ClassifierOutcomes :
          LET res == route_query(r_query, outcome)
          IN  /\ r_last' = [op |-> "route_query", query |-> r_query,
                            outcome |-> outcome, raised |-> res.raised,
                            decision |-> res.decision]
              /\ r_fallback' = IF res.fallback THEN r_fallback \cup {res.decision}
                               ELSE r_fallback
              /\ r_repeat' = IF res.fallback THEN RepeatAfterFallback
                             ELSE RepeatAfterOther
    /\ UNCHANGED <<r_query, graphVars, auxVars>>

\* _fallback_routing(r_query), called directly.
CallFallback ==
    /\ LET d == _fallback_routing(r_query)
       IN  /\ r_last' = [op |-> "_fallback_routing", query |-> r_query,
                         outcome |-> NoOutcome, raised |-> FALSE, decision |-> d]
           /\ r_fallback' = r_fallback \cup {d}
    /\ r_repeat' = RepeatAfterFallback
    /\ UNCHANGED <<r_query, graphVars, auxVars>>

\* _fallback_routing on another query.
CallFallbackOther ==
    /\ \E q \in OtherQueries \ {r_query} :
          r_last' = [op |-> "_fallback_routing", query |-> q,
                     outcome |-> NoOutcome, raised |-> FALSE,
                     decision |-> _fallback_routing(q)]
    /\ r_repeat' = RepeatAfterOther
    /\ UNCHANGED <<r_query, r_fallback, graphVars, auxVars>>

RouterNext == CallRouteQuery \/ CallFallback \/ CallFallbackOther

vars == <<routerVars, graphVars, auxVars>>

SpecRouter == RouterInit /\ [][RouterNext]_vars

(***************************************************************************)
(* Spec: one request.  chat_endpoint builds the initial state from the     *)
(* request and invokes the graph, or the graph is invoked directly; the    *)
(* nodes run along the edges; chat_endpoint answers.  The agent graph has  *)
(* been constructed; the session store is outside this specification.      *)
(***************************************************************************)
IdleRouter ==
    /\ r_query = ""
    /\ r_last = NoCall
    /\ r_fallback = {}
    /\ r_repeat = "none"

Init == IdleGraph /\ IdleRouter /\ IdleAux

\* chat_endpoint up to graph.invoke: the user message is appended to the
\* prior conversation and the state is formatted for the graph.
ChatEndpointBegin ==
    /\ pc = "idle"
    /\ \E request \in ChatRequests :
          LET user_message == Message("user", request.message)
              messages == request.history \o <<user_message>>
              initial_state == format_state_for_graph(messages, request.message)
          IN  /\ state' = initial_state
              /\ input' = initial_state
    /\ via' = "chat"
    /\ pc' = "entry"
    /\ UNCHANGED <<executed, calls, http, generated, routerVars, auxVars>>

\* graph.invoke on a state built by another caller: any conversation, any
\* current_query.
GraphInvoke ==
    /\ pc = "idle"
    /\ \E messages \in Conversations, query \in {"", "Bali"} :
          /\ state' = format_state_for_graph(messages, query)
          /\ input' = format_state_for_graph(messages, query)
    /\ via' = "invoke"
    /\ pc' = "entry"
    /\ UNCHANGED <<executed, calls, http, generated, routerVars, auxVars>>

\* The run after a node has returned `result`.
Advance(node, result) ==
    /\ state' = result.state
    /\ calls' = calls \o result.calls
    /\ executed' = Append(executed, node)
    /\ pc' = IF result.raised THEN "raised" ELSE NextNode(node, result.state)
    /\ UNCHANGED <<input, via, http, routerVars, auxVars>>

\* The generation outcome of the request after a category node has run under
\* env: the node calls generate_response unless the query is empty.
Generated(st, env) == IF st.current_query = "" THEN generated ELSE env.gen

RunEntry ==
    /\ pc = "entry"
    /\ Advance("entry", [raised |-> FALSE, calls |-> <<>>, state |-> entry_node(state)])
    /\ UNCHANGED generated

RunOrchestrator ==
    /\ pc = "orchestrator"
    /\ \E outcome \in GraphClassifierOutcomes :
          Advance("orchestrator", orchestrator_node(state, outcome))
    /\ UNCHANGED generated

RunTravelSupport ==
    /\ pc = "travel_support"
    /\ \E env \in Environments :
          /\ Advance("travel_support", travel_support_node(state, env))
          /\ generated' = Generated(state, env)

RunBookingPayments ==
    /\ pc = "booking_payments"
    /\ \E env \in Environments :
          /\ Advance("booking_payments", booking_payments_node(state, env))
          /\ generated' = Generated(state, env)

RunPolicy ==
    /\ pc = "policy"
    /\ \E env \in Environments :
          /\ Advance("policy", policy_node(state, env))
          /\ generated' = Generated(state, env)

EmptyResponseApology ==
    "I apologize, but I couldn't generate a response. Please try again."

\* chat_endpoint after graph.invoke: the response text and the agent type of
\* the ChatResponse, or the HTTP 500 of the except clause.
ChatEndpointReturn ==
    /\ via = "chat"
    /\ pc \in {"END", "raised"}
    /\ http' = IF pc = "raised"
               THEN [status |-> "500", message |-> "", agent_type |-> "None"]
               ELSE [status |-> "200",
                     message |-> IF state.response = "" \/ Strip(state.response) = ""
                                 THEN EmptyResponseApology ELSE state.response,
                     agent_type |-> state.current_agent]
    /\ pc' = "done"
    /\ UNCHANGED <<state, input, via, executed, calls, generated, routerVars, auxVars>>

Next ==
    \/ ChatEndpointBegin
    \/ GraphInvoke
    \/ RunEntry
    \/ RunOrchestrator
    \/ RunTravelSupport
    \/ RunBookingPayments
    \/ RunPolicy
    \/ ChatEndpointReturn

Spec == Init /\ [][Next]_vars

(***************************************************************************)
(* SpecHistory: one call of an agent's generate_response on a conversation *)
(* of up to MaxHistory messages of any roles, each with its own content.   *)
(***************************************************************************)
MessageContents == <<"m1", "m2", "m3", "m4", "m5", "m6", "m7", "m8">>

HistoryConversations ==
    UNION {{[i \in 1..n |-> Message(roles[i], MessageContents[i])] :
                roles \in [1..n -> {"user", "assistant", "system"}]} :
           n \in 0..MaxHistory}

HistoryInit ==
    /\ h_conversation \in HistoryConversations
    /\ h_prompt = NoPrompt
    /\ IdleGraph
    /\ IdleRouter
    /\ IdleCache
    /\ IdleRace
    /\ IdleCalls

\* generate_response(query, h_conversation) of one of the three agents: the
\* history of its generation call is recorded.
CallGenerateResponse ==
    /\ ~h_prompt.built
    /\ \E agent \in AgentTypes, env \in Environments :
          LET r == CASE agent = "travel_support" ->
                          TravelSupportAgent_generate_response("Bali", h_conversation, env)
                     [] agent = "booking_payments" ->
                          BookingPaymentsAgent_generate_response("Bali", h_conversation, env)
                     [] OTHER ->
                          PolicyAgent_generate_response("Bali", h_conversation, env)
              call == r.calls[Len(r.calls)]
          IN  h_prompt' = [built |-> TRUE, agent |-> agent, history |-> call.history]
    /\ UNCHANGED <<h_conversation, graphVars, routerVars, cacheVars, raceVars, callVars>>

HistoryNext == CallGenerateResponse

SpecHistory == HistoryInit /\ [][HistoryNext]_vars

(***************************************************************************)
(* SpecCache: calls, one at a time, on the CAGRetriever of the PolicyAgent *)
(* ("policy_agent"), while the corpus directory may change;                *)
(* create_agent_graph constructs the PolicyAgent and the                   *)
(* BookingPaymentsAgent, whose HybridRetriever has a CAGRetriever of its   *)
(* own ("hybrid"), on new retrievers.                                      *)
(***************************************************************************)
MarkedFile == "#type: fee\nRefund 48h"
PlainFile == "One bag\n"
TrailingMarkerFile == " Terms\n#src: web"

Corpora ==
    {MissingDirectory,
     [exists |-> TRUE, files |-> <<>>],
     [exists |-> TRUE, files |-> <<File(TRUE, MarkedFile), File(TRUE, PlainFile)>>],
     [exists |-> TRUE,
      files |-> <<File(FALSE, MarkedFile), File(TRUE, TrailingMarkerFile)>>],
     [exists |-> TRUE,
      files |-> <<File(TRUE, "fee a"), File(TRUE, PlainFile), File(TRUE, "Fee b"),
                  File(TRUE, "terms fee c"), File(TRUE, "fee d")>>]}

CacheQueries == {"refund bag", "fee", "Bali"}

\* The outcomes of the embedding call; no generation is part of a retrieval.
RetrievalEnvironments ==
    {e \in Environments : e.gen.kind = "exception"}

nonCacheVars == <<routerVars, graphVars, historyVars, raceVars, callVars>>

CacheInit ==
    /\ disk \in Corpora
    /\ NewRetrievers
    /\ IdleGraph
    /\ IdleRouter
    /\ IdleHistory
    /\ IdleRace
    /\ IdleCalls

\* The files of the corpus directory change.
DiskChange ==
    /\ \E d \in Corpora \ {disk} : disk' = d
    /\ c_last' = [op |-> "disk_change", category |-> ""]
    /\ c_result' = NoResult
    /\ UNCHANGED <<cag, hybrid, c_returned, invalidated, graph_created, nonCacheVars>>

CacheDocuments ==
    /\ \E agent_type \in Categories :
          /\ cag' = [cag EXCEPT !["policy_agent"] = cache_documents(@, agent_type, disk)]
          /\ c_last' = [op |-> "cache_documents", category |-> agent_type]
    /\ c_result' = NoResult
    /\ UNCHANGED <<disk, hybrid, c_returned, invalidated, graph_created, nonCacheVars>>

GetCachedDocuments ==
    /\ \E agent_type \in Categories :
          \E got \in {get_cached_documents(cag["policy_agent"], agent_type, disk)} :
              /\ cag' = [cag EXCEPT !["policy_agent"] = got.cag]
              /\ c_returned' = [c_returned EXCEPT ![agent_type] = @ \cup {got.result}]
              /\ c_last' = [op |-> "get_cached_documents", category |-> agent_type]
              /\ c_result' = [NoResult EXCEPT !.docs = got.result]
    /\ UNCHANGED <<disk, hybrid, invalidated, graph_created, nonCacheVars>>

SearchCached ==
    /\ \E agent_type \in Categories, query \in CacheQueries :
          \E found \in {CAGRetriever_search_cached(cag["policy_agent"], query,
                                                   agent_type, disk)} :
              /\ cag' = [cag EXCEPT !["policy_agent"] = found.cag]
              /\ c_last' = [op |-> "search_cached", category |-> agent_type]
              /\ c_result' = [NoResult EXCEPT !.query = query, !.docs = found.result]
    /\ UNCHANGED <<disk, hybrid, c_returned, invalidated, graph_created, nonCacheVars>>

ClearCache ==
    /\ \E agent_type \in Categories \cup {""} :
          /\ cag' = [cag EXCEPT !["policy_agent"] = clear_cache(@, agent_type)]
          /\ c_returned' = [c \in Categories |->
                                IF agent_type \in {c, ""} THEN {} ELSE c_returned[c]]
          /\ c_last' = [op |-> "clear_cache", category |-> agent_type]
    /\ c_result' = NoResult
    /\ invalidated' = TRUE
    /\ UNCHANGED <<disk, hybrid, graph_created, nonCacheVars>>

InitializeCache ==
    /\ \E init \in {initialize_cache(hybrid, cag["hybrid"], disk)} :
           /\ hybrid' = init.hybrid
           /\ cag' = [cag EXCEPT !["hybrid"] = init.cag]
    /\ c_last' = [op |-> "initialize_cache", category |-> "policy"]
    /\ c_result' = NoResult
    /\ UNCHANGED <<disk, c_returned, invalidated, graph_created, nonCacheVars>>

HybridRetrieve ==
    /\ \E query \in CacheQueries, include_static \in BOOLEAN,
          env \in RetrievalEnvironments :
          \E got \in {HybridRetriever_retrieve(hybrid, cag["hybrid"], query,
                                               include_static, disk, env)} :
              /\ hybrid' = got.hybrid
              /\ cag' = [cag EXCEPT !["hybrid"] = got.cag]
              /\ c_result' = [NoResult EXCEPT
                                 !.query = query,
                                 !.include_static = include_static,
                                 !.embed = env.embed,
                                 !.store = env.store,
                                 !.dynamic = got.results.dynamic,
                                 !.static = got.results.static]
    /\ c_last' = [op |-> "retrieve", category |-> "policy"]
    /\ UNCHANGED <<disk, c_returned, invalidated, graph_created, nonCacheVars>>

GetStaticPolicies ==
    /\ \E got \in {get_static_policies(hybrid, cag["hybrid"], disk)} :
           /\ hybrid' = got.hybrid
           /\ cag' = [cag EXCEPT !["hybrid"] = got.cag]
           /\ c_result' = [NoResult EXCEPT !.docs = got.result]
    /\ c_last' = [op |-> "get_static_policies", category |-> "policy"]
    /\ UNCHANGED <<disk, c_returned, invalidated, graph_created, nonCacheVars>>

HybridClearCache ==
    /\ LET cleared == HybridRetriever_clear_cache(hybrid, cag["hybrid"])
       IN  /\ hybrid' = cleared.hybrid
           /\ cag' = [cag EXCEPT !["hybrid"] = cleared.cag]
    /\ c_last' = [op |-> "hybrid_clear_cache", category |-> ""]
    /\ c_result' = NoResult
    /\ invalidated' = TRUE
    /\ UNCHANGED <<disk, c_returned, graph_created, nonCacheVars>>

\* create_agent_graph as far as the caches go: BookingPaymentsAgent() builds a
\* HybridRetriever with a CAGRetriever of its own and initialises it;
\* PolicyAgent() builds another CAGRetriever and caches "policy" in it.
CreateAgentGraph ==
    /\ ~graph_created
    /\ c_last = NoCacheCall
    /\ \E init \in {initialize_cache(NewHybridRetriever, NewCAGRetriever, disk)} :
           /\ hybrid' = init.hybrid
           /\ cag' = [cag EXCEPT
                         !["hybrid"] = init.cag,
                         !["policy_agent"] = cache_documents(NewCAGRetriever, "policy", disk)]
    /\ graph_created' = TRUE
    /\ c_last' = [op |-> "create_agent_graph", category |-> "policy"]
    /\ c_result' = NoResult
    /\ UNCHANGED <<disk, c_returned, invalidated, nonCacheVars>>

CacheNext ==
    \/ DiskChange
    \/ CacheDocuments
    \/ GetCachedDocuments
    \/ SearchCached
    \/ ClearCache
    \/ CreateAgentGraph

SpecCache == CacheInit /\ [][CacheNext]_vars

\* SpecHybrid: calls, one at a time, on the HybridRetriever, while the
\* corpus directory may change.
HybridNext ==
    \/ DiskChange
    \/ InitializeCache
    \/ HybridRetrieve
    \/ GetStaticPolicies
    \/ HybridClearCache

SpecHybrid == CacheInit /\ [][HybridNext]_vars

(***************************************************************************)
(* SpecRace: two requests run as threads, each making one call on the      *)
(* shared HybridRetriever or on its CAGRetriever for the category          *)
(* "policy".  A step is one statement of the method the thread is in; the  *)
(* methods take no lock, so the statements of the two threads interleave   *)
(* freely.  load_documents reads one file per step into a local list.      *)
(***************************************************************************)
Tasks ==
    {"cache_documents", "get_cached_documents", "initialize_cache",
     "get_static_policies", "clear_cache"}

\* The first statement of a method.
Entry(task) ==
    CASE task = "cache_documents" -> "cd_check"
      [] task = "get_cached_documents" -> "gc_check"
      [] task = "initialize_cache" -> "ic_check"
      [] task = "get_static_policies" -> "gs_check"
      [] task = "clear_cache" -> "cl_static"

SharedCache == cag["hybrid"].cached_documents["policy"]

\* The thread th after returning from the method it is in.
Return(th) ==
    IF th.stack = <<>>
    THEN [th EXCEPT !.pc = "done"]
    ELSE [th EXCEPT !.pc = Head(th.stack), !.stack = Tail(th.stack)]

\* The thread th calling a method and then continuing at the statements rest.
CallMethod(th, entry, rest) == [th EXCEPT !.pc = entry, !.stack = rest \o th.stack]

\* The variant in which load_documents appends to the cache entry itself.
LoadingFile_shared(c, agent_type, documents) ==
    [c EXCEPT !.cached_documents[agent_type] = [present |-> TRUE, docs |-> documents]]

\* The retriever c while load_documents appends to its list documents: the
\* list is local, the retriever does not change.
LoadingFile(c, agent_type, documents) == c

RaceInit ==
    /\ disk \in Corpora
    /\ NewRetrievers
    /\ IdleGraph
    /\ IdleRouter
    /\ IdleHistory
    /\ IdleRace
    /\ IdleCalls

raceUnchanged ==
    <<disk, c_last, c_result, c_returned, graph_created, routerVars, graphVars,
      historyVars, callVars>>

\* A request calls one method.
StartCall(t) ==
    /\ threads[t].pc = "idle"
    /\ \E task \in Tasks :
          threads' = [threads EXCEPT ![t] = [@ EXCEPT !.task = task, !.pc = Entry(task)]]
    /\ UNCHANGED <<cag, hybrid, invalidated, raceUnchanged>>

\* cache_documents: if agent_type not in self.cached_documents
CdCheck(t) ==
    /\ threads[t].pc = "cd_check"
    /\ threads' = [threads EXCEPT ![t] =
                      IF ~SharedCache.present
                      THEN [@ EXCEPT !.pc = "cd_load", !.documents = <<>>, !.next_file = 1]
                      ELSE Return(@)]
    /\ UNCHANGED <<cag, hybrid, invalidated, raceUnchanged>>

\* load_documents: one file read and cleaned, or the return of the list.
CdLoad(t) ==
    /\ threads[t].pc = "cd_load"
    /\ LET th == threads[t]
       IN  IF ~disk.exists \/ th.next_file > Len(disk.files)
           THEN /\ threads' = [threads EXCEPT ![t] =
                                 [@ EXCEPT !.pc = "cd_store", !.loaded = TRUE]]
                /\ cag' = [cag EXCEPT !["hybrid"].loads["policy"] = @ + 1]
           ELSE \E documents \in
                    {IF disk.files[th.next_file].readable
                     THEN Append(th.documents,
                                 Strip(RemoveMarkers(disk.files[th.next_file].text)))
                     ELSE th.documents} :
                  /\ threads' = [threads EXCEPT ![t] =
                                    [@ EXCEPT !.documents = documents,
                                              !.next_file = @ + 1]]
                  /\ cag' = [cag EXCEPT !["hybrid"] = LoadingFile(@, "policy", documents)]
    /\ UNCHANGED <<hybrid, invalidated, raceUnchanged>>

\* cache_documents: self.cached_documents[agent_type] = documents
CdStore(t) ==
    /\ threads[t].pc = "cd_store"
    /\ cag' = [cag EXCEPT !["hybrid"].cached_documents["policy"] =
                              [present |-> TRUE, docs |-> threads[t].documents]]
    /\ threads' = [threads EXCEPT ![t] = Return(@)]
    /\ UNCHANGED <<hybrid, invalidated, raceUnchanged>>

\* get_cached_documents: if agent_type not in self.cached_documents
GcCheck(t) ==
    /\ threads[t].pc = "gc_check"
    /\ threads' = [threads EXCEPT ![t] =
                      IF ~SharedCache.present
                      THEN CallMethod(@, "cd_check", <<"gc_return">>)
                      ELSE [@ EXCEPT !.pc = "gc_return"]]
    /\ UNCHANGED <<cag, hybrid, invalidated, raceUnchanged>>

\* get_cached_documents: return self.cached_documents.get(agent_type, [])
GcReturn(t) ==
    /\ threads[t].pc = "gc_return"
    /\ \E value \in {IF SharedCache.present THEN SharedCache.docs ELSE <<>>} :
          threads' = [threads EXCEPT ![t] =
                         IF @.stack = <<>>
                         THEN [@ EXCEPT !.pc = "done", !.result = value]
                         ELSE Return([@ EXCEPT !.documents = value])]
    /\ UNCHANGED <<cag, hybrid, invalidated, raceUnchanged>>

\* initialize_cache: if not self.cache_initialized, then cache_documents and
\* get_cached_documents of the CAGRetriever.
IcCheck(t) ==
    /\ threads[t].pc = "ic_check"
    /\ threads' = [threads EXCEPT ![t] =
                      IF ~hybrid.cache_initialized
                      THEN CallMethod(@, "cd_check", <<"gc_check", "ic_filter">>)
                      ELSE Return(@)]
    /\ UNCHANGED <<cag, hybrid, invalidated, raceUnchanged>>

\* initialize_cache: the loop that builds the local relevant_policies.
IcFilter(t) ==
    /\ threads[t].pc = "ic_filter"
    /\ threads' = [threads EXCEPT ![t] =
                      [@ EXCEPT !.pc = "ic_assign",
                                !.documents = relevant_policies(@)]]
    /\ hybrid' = [hybrid EXCEPT !.filters = @ + 1]
    /\ UNCHANGED <<cag, invalidated, raceUnchanged>>

\* initialize_cache: self.static_policy_cache = relevant_policies
IcAssign(t) ==
    /\ threads[t].pc = "ic_assign"
    /\ hybrid' = [hybrid EXCEPT !.static_policy_cache = threads[t].documents]
    /\ threads' = [threads EXCEPT ![t] = [@ EXCEPT !.pc = "ic_flag"]]
    /\ UNCHANGED <<cag, invalidated, raceUnchanged>>

\* initialize_cache: self.cache_initialized = True
IcFlag(t) ==
    /\ threads[t].pc = "ic_flag"
    /\ hybrid' = [hybrid EXCEPT !.cache_initialized = TRUE]
    /\ threads' = [threads EXCEPT ![t] = Return(@)]
    /\ UNCHANGED <<cag, invalidated, raceUnchanged>>

\* get_static_policies: if not self.cache_initialized
GsCheck(t) ==
    /\ threads[t].pc = "gs_check"
    /\ threads' = [threads EXCEPT ![t] =
                      IF ~hybrid.cache_initialized
                      THEN CallMethod(@, "ic_check", <<"gs_return">>)
                      ELSE [@ EXCEPT !.pc = "gs_return"]]
    /\ UNCHANGED <<cag, hybrid, invalidated, raceUnchanged>>

\* get_static_policies: return self.static_policy_cache.copy()
GsReturn(t) ==
    /\ threads[t].pc = "gs_return"
    /\ threads' = [threads EXCEPT ![t] =
                      [@ EXCEPT !.pc = "done", !.result = hybrid.static_policy_cache]]
    /\ UNCHANGED <<cag, hybrid, invalidated, raceUnchanged>>

\* HybridRetriever.clear_cache: self.static_policy_cache.clear()
ClStatic(t) ==
    /\ threads[t].pc = "cl_static"
    /\ hybrid' = [hybrid EXCEPT !.static_policy_cache = <<>>, !.filters = 0]
    /\ invalidated' = TRUE
    /\ threads' = [threads EXCEPT ![t] = [@ EXCEPT !.pc = "cl_flag"]]
    /\ UNCHANGED <<cag, raceUnchanged>>

\* HybridRetriever.clear_cache: self.cache_initialized = False
ClFlag(t) ==
    /\ threads[t].pc = "cl_flag"
    /\ hybrid' = [hybrid EXCEPT !.cache_initialized = FALSE]
    /\ threads' = [threads EXCEPT ![t] = [@ EXCEPT !.pc = "cl_cag"]]
    /\ UNCHANGED <<cag, invalidated, raceUnchanged>>

\* HybridRetriever.clear_cache: self.cag_retriever.clear_cache()
ClCag(t) ==
    /\ threads[t].pc = "cl_cag"
    /\ cag' = [cag EXCEPT !["hybrid"] = clear_cache(@, "")]
    /\ threads' = [threads EXCEPT ![t] = Return(@)]
    /\ UNCHANGED <<hybrid, invalidated, raceUnchanged>>

RaceNext ==
    \E t \in Threads :
        \/ StartCall(t)
        \/ CdCheck(t)
        \/ CdLoad(t)
        \/ CdStore(t)
        \/ GcCheck(t)
        \/ GcReturn(t)
        \/ IcCheck(t)
        \/ IcFilter(t)
        \/ IcAssign(t)
        \/ IcFlag(t)
        \/ GsCheck(t)
        \/ GsReturn(t)
        \/ ClStatic(t)
        \/ ClFlag(t)
        \/ ClCag(t)

SpecRace == RaceInit /\ [][RaceNext]_vars

(***************************************************************************)
(* SpecRag: one call of retrieve or of retrieve_with_scores on a           *)
(* RAGRetriever, for every outcome of the embedding call and of the store  *)
(* query.                                                                  *)
(***************************************************************************)
ChunkContents == <<"c1", "c2", "c3", "c4">>
ChunkMetadatas == <<"m1", "m2", "m3", "m4">>
Distances == {0, 30, 100, 150}
ScoreThresholds == {0 - 60, 0, 70, 100}

\* The rows of length n or, a row being short, n - 1.
Rows(n, short, values) ==
    IF short THEN [1..(n - 1) -> values] ELSE [1..n -> values]

\* The results with n documents; ms tells that the metadatas row is one short.
ResultsOf(n) ==
    {[kind |-> "result", documents_key |-> key,
      documents |-> SubSeq(ChunkContents, 1, n),
      metadatas_present |-> m[1],
      metadatas |-> IF m[1] THEN SubSeq(ChunkMetadatas, 1, IF m[2] THEN n - 1 ELSE n)
                    ELSE <<>>,
      distances |-> d] :
        key \in BOOLEAN,
        m \in {<<FALSE, FALSE>>, <<TRUE, FALSE>>} \cup
              (IF n > 0 THEN {<<TRUE, TRUE>>} ELSE {}),
        d \in {<<>>} \cup Rows(n, FALSE, Distances)
                    \cup (IF n > 1 THEN Rows(n, TRUE, Distances) ELSE {})}

StoreResults == UNION {ResultsOf(n) : n \in 0..MaxChunks}

StoreOutcomes == {StoreException} \cup StoreResults

RagInit ==
    /\ \E embed \in {"ok", "fail"}, store \in StoreOutcomes,
          score_threshold \in ScoreThresholds :
          rag = [NoRagCall EXCEPT !.embed = embed, !.store = store,
                                  !.score_threshold = score_threshold]
    /\ srch = NoSearch
    /\ startup = Started
    /\ IdleMore
    /\ IdleGraph
    /\ IdleRouter
    /\ IdleHistory
    /\ IdleCache
    /\ IdleRace

nonRagVars ==
    <<srch, startup, moreVars, routerVars, graphVars, historyVars, cacheVars,
      raceVars>>

Retrieve ==
    /\ rag.op = "none"
    /\ \E got \in {RAGRetriever_retrieve_chunks(rag.embed, rag.store)} :
          rag' = [rag EXCEPT !.op = "retrieve", !.raised = got.raised,
                             !.result = got.documents]
    /\ UNCHANGED nonRagVars

RetrieveWithScores ==
    /\ rag.op = "none"
    /\ \E got \in {RAGRetriever_retrieve_chunks(rag.embed, rag.store)} :
          rag' = [rag EXCEPT
                     !.op = "retrieve_with_scores",
                     !.raised = got.raised,
                     !.result = IF got.raised THEN <<>>
                                ELSE retrieve_with_scores(got.documents,
                                                          rag.score_threshold)]
    /\ UNCHANGED nonRagVars

RagNext == Retrieve \/ RetrieveWithScores

SpecRag == RagInit /\ [][RagNext]_vars

(***************************************************************************)
(* SpecWhere: the vector-store query of one RAGRetriever.retrieve.  The    *)
(* store holds chunks with their metadata and returns those that satisfy   *)
(* every equality of the where clause it is sent.  A dict is a function    *)
(* from keys to values; None and {} are both the empty function.           *)
(***************************************************************************)
EmptyFilter == <<>>

\* rag.py 72-74: where_clause = {"agent_type": agent_type}, then
\* where_clause.update(filter_metadata) when filter_metadata is not empty.
where_clause(agent_type, filter_metadata) ==
    IF filter_metadata # EmptyFilter
    THEN filter_metadata @@ ("agent_type" :> agent_type)
    ELSE "agent_type" :> agent_type

\* collection.query(where=...): the stored chunks whose metadata has every
\* value the where clause asks for.
collection_query(stored, where) ==
    {chunk \in stored : \A key \in DOMAIN where : chunk[key] = where[key]}

StoredChunk(agent_type, document_type) ==
    [agent_type |-> agent_type, document_type |-> document_type]

ChunkPool ==
    {StoredChunk("travel_support", "guide"), StoredChunk("booking_payments", "pricing"),
     StoredChunk("policy", "pricing"), StoredChunk("policy", "refund")}

FilterMetadatas ==
    {EmptyFilter,
     "document_type" :> "pricing",
     "document_type" :> "refund",
     "agent_type" :> "policy",
     "agent_type" :> "travel_support",
     ("agent_type" :> "policy") @@ ("document_type" :> "pricing")}

WhereInit ==
    /\ \E agent_type \in AgentTypes, filter_metadata \in FilterMetadatas,
          stored \in SUBSET ChunkPool :
          whr = [NoWhere EXCEPT !.agent_type = agent_type,
                                !.filter_metadata = filter_metadata,
                                !.stored = stored]
    /\ chat = NoChat
    /\ ingest = NoIngest
    /\ rag = NoRagCall
    /\ srch = NoSearch
    /\ startup = Started
    /\ IdleGraph
    /\ IdleRouter
    /\ IdleHistory
    /\ IdleCache
    /\ IdleRace

\* The query of retrieve(query, agent_type, top_k, filter_metadata).
QueryCollection ==
    /\ ~whr.issued
    /\ \E where \in {where_clause(whr.agent_type, whr.filter_metadata)} :
          whr' = [whr EXCEPT !.issued = TRUE, !.where = where,
                             !.returned = collection_query(whr.stored, where)]
    /\ UNCHANGED <<chat, ingest, rag, srch, startup, routerVars, graphVars,
                   historyVars, cacheVars, raceVars>>

WhereNext == QueryCollection

SpecWhere == WhereInit /\ [][WhereNext]_vars

(***************************************************************************)
(* SpecSession: the session store of main.py and two chat requests.        *)
(* chat_endpoint has no await and runs in one piece; stream_response is a  *)
(* generator that is suspended at each token it yields, before it stores   *)
(* the conversation.  The graph's run is given by its outcome: whether     *)
(* get_agent_graph or graph.invoke raised, the answer, and whether the     *)
(* category node appended the answer to the messages of the state.  The   *)
(* node works on state["messages"]; chat.shared tells whether that is the  *)
(* list object the endpoint built (the graph library hands the state's     *)
(* values on without copying them) or a copy of it.                        *)
(***************************************************************************)
SessionIds == <<"n1", "n2">>

\* get_or_create_session: the sessions afterwards and the session id.
get_or_create_session(ch, session_id) ==
    IF session_id # "" /\ session_id \in DOMAIN ch.sessions
    THEN [sessions |-> ch.sessions, created |-> ch.created, session_id |-> session_id]
    ELSE [sessions |-> ch.sessions @@ (SessionIds[ch.created + 1] :> <<>>),
          created |-> ch.created + 1,
          session_id |-> SessionIds[ch.created + 1]]

\* conversation_history None is [given |-> FALSE].
History(given, messages) == [given |-> given, messages |-> messages]

\* Lines 201-217 of chat_endpoint, 105-123 of stream_response: the session,
\* the messages handed to the graph, the run of the graph.  The messages
\* afterwards hold the node's assistant message when the node appended it
\* to the list it was handed.
invoke_graph(ch, request, run) ==
    Then(get_or_create_session(ch, request.session_id), LAMBDA session :
        LET conversation_history ==
                IF ~request.conversation_history.given
                THEN session.sessions[session.session_id]
                ELSE request.conversation_history.messages
            user_message == Message("user", request.message)
            messages == conversation_history \o <<user_message>>
            response_text == IF Strip(run.response) = "" THEN EmptyResponseApology
                             ELSE run.response
        IN  [sessions |-> session.sessions,
             created |-> session.created,
             session_id |-> session.session_id,
             start |-> conversation_history,
             raised |-> run.raised,
             response_text |-> IF run.raised THEN "" ELSE response_text,
             messages |-> IF ~run.raised /\ run.appended /\ ch.shared
                          THEN Append(messages, Message("assistant", run.response))
                          ELSE messages])

\* Lines 231-233 / 162-164: the assistant message is appended and the
\* messages are stored for the session.
store_messages(sessions, session_id, messages, response_text) ==
    [sessions EXCEPT ![session_id] =
        Append(messages, Message("assistant", response_text))]

Completed(endpoint, invoked, request, status, sessions) ==
    [pc |-> "done", endpoint |-> endpoint, session_id |-> invoked.session_id,
     start |-> invoked.start, message |-> request.message,
     messages |-> invoked.messages, answer |-> invoked.response_text,
     status |-> status,
     stored |-> IF status = "ok" THEN sessions[invoked.session_id] ELSE <<>>]

\* The variant that stores the user's message before the graph runs.
chat_endpoint_store_first(ch, request, run) ==
    Then(invoke_graph(ch, request, run), LAMBDA invoked :
        IF invoked.raised
        THEN [sessions |-> [invoked.sessions EXCEPT ![invoked.session_id] =
                               invoked.start \o <<Message("user", request.message)>>],
              created |-> invoked.created,
              request |-> Completed("chat", invoked, request, "error", invoked.sessions)]
        ELSE Then(store_messages(invoked.sessions, invoked.session_id,
                                 invoked.messages, invoked.response_text),
                  LAMBDA sessions :
                      [sessions |-> sessions, created |-> invoked.created,
                       request |-> Completed("chat", invoked, request, "ok", sessions)]))

\* chat_endpoint: the sessions afterwards and what the request got; an
\* exception leaves the try block before the messages are stored.
chat_endpoint(ch, request, run) ==
    Then(invoke_graph(ch, request, run), LAMBDA invoked :
        IF invoked.raised
        THEN [sessions |-> invoked.sessions, created |-> invoked.created,
              request |-> Completed("chat", invoked, request, "error", invoked.sessions)]
        ELSE Then(store_messages(invoked.sessions, invoked.session_id,
                                 invoked.messages, invoked.response_text),
                  LAMBDA sessions :
                      [sessions |-> sessions, created |-> invoked.created,
                       request |-> Completed("chat", invoked, request, "ok", sessions)]))

Slots == {"first", "second"}

StoredConversations ==
    {<<>>, <<Message("user", "old"), Message("assistant", "Old answer")>>}

GivenHistories ==
    {History(FALSE, <<>>), History(TRUE, <<>>),
     History(TRUE, <<Message("user", "mine")>>)}

\* ChatRequest: message has at least one character.
SessionRequests ==
    {[message |-> m, session_id |-> s, conversation_history |-> h] :
        m \in {"q1", "q2"}, s \in {"", "s1", "gone"}, h \in GivenHistories}

\* The runs of the graph: an answer appended by the category node, the
\* apology of a category node's except clause (nothing appended), an
\* exception leaving get_agent_graph or graph.invoke.
GraphRuns ==
    {[raised |-> FALSE, response |-> "Answer", appended |-> TRUE],
     [raised |-> FALSE, response |-> TravelSupportErrorApology, appended |-> FALSE],
     [raised |-> TRUE, response |-> "", appended |-> FALSE]}

SessionInit ==
    /\ \E stored \in StoredConversations, shared \in BOOLEAN :
          chat = [NoChat EXCEPT !.sessions = "s1" :> stored, !.shared = shared]
    /\ whr = NoWhere
    /\ ingest = NoIngest
    /\ rag = NoRagCall
    /\ srch = NoSearch
    /\ startup = Started
    /\ IdleGraph
    /\ IdleRouter
    /\ IdleHistory
    /\ IdleCache
    /\ IdleRace

nonSessionVars ==
    <<whr, ingest, rag, srch, startup, routerVars, graphVars, historyVars,
      cacheVars, raceVars>>

\* POST /chat, served in one piece.
ChatEndpointCall ==
    /\ \E slot \in Slots, request \in SessionRequests, run \in GraphRuns :
          /\ chat.requests[slot].pc = "idle"
          /\ \E done \in {chat_endpoint(chat, request, run)} :
                chat' = [chat EXCEPT !.sessions = done.sessions,
                                     !.created = done.created,
                                     !.requests[slot] = done.request]
    /\ UNCHANGED nonSessionVars

\* stream_response up to its first yield: an exception is streamed as an
\* error event and ends the request.
StreamBegin ==
    /\ \E slot \in Slots, request \in SessionRequests, run \in GraphRuns :
          /\ chat.requests[slot].pc = "idle"
          /\ \E invoked \in {invoke_graph(chat, request, run)} :
                chat' = [chat EXCEPT
                    !.sessions = invoked.sessions,
                    !.created = invoked.created,
                    !.requests[slot] =
                        IF invoked.raised
                        THEN Completed("stream", invoked, request, "error",
                                       invoked.sessions)
                        ELSE [Completed("stream", invoked, request, "none",
                                        invoked.sessions)
                                 EXCEPT !.pc = "streaming"]]
    /\ UNCHANGED nonSessionVars

\* stream_response after its last yield: lines 162-164.
StreamStore ==
    /\ \E slot \in Slots :
          /\ chat.requests[slot].pc = "streaming"
          /\ LET r == chat.requests[slot]
             IN  \E sessions \in {store_messages(chat.sessions, r.session_id,
                                                  r.messages, r.answer)} :
                    chat' = [chat EXCEPT
                        !.sessions = sessions,
                        !.requests[slot] =
                            [r EXCEPT !.pc = "done", !.status = "ok",
                                      !.stored = sessions[r.session_id]]]
    /\ UNCHANGED nonSessionVars

SessionNext == ChatEndpointCall \/ StreamBegin \/ StreamStore

SpecSession == SessionInit /\ [][SessionNext]_vars

(***************************************************************************)
(* SpecStartup: the service process (main.py) from its start.  The agent   *)
(* graph is built by get_agent_graph at the first request that needs it;   *)
(* building it constructs a RAGRetriever, which raises when the collection *)
(* is absent.  scripts/ingest_data.py, run beside the service, creates the *)
(* collection in the same persistent store.                                *)
(***************************************************************************)
\* get_agent_graph: create_agent_graph() constructs the agents;
\* RAGRetriever.__init__ re-raises when get_collection fails, before
\* agent_graph is assigned.
\* `created` counts the calls of create_agent_graph that returned; the graph
\* held by agent_graph is the one the latest of them returned.
\* A variant without the `is None` test: every request builds a graph.
get_agent_graph_rebuild(s) ==
    IF s.collection
    THEN [startup |-> [s EXCEPT !.agent_graph = TRUE, !.created = @ + 1],
          raised |-> FALSE, attempted |-> TRUE]
    ELSE [startup |-> s, raised |-> TRUE, attempted |-> TRUE]

get_agent_graph(s) ==
    IF s.agent_graph
    THEN [startup |-> s, raised |-> FALSE, attempted |-> FALSE]
    ELSE IF s.collection
    THEN [startup |-> [s EXCEPT !.agent_graph = TRUE, !.created = @ + 1],
          raised |-> FALSE, attempted |-> TRUE]
    ELSE [startup |-> s, raised |-> TRUE, attempted |-> TRUE]

\* What a request got: an answer produced by graph.invoke, or the error of
\* its endpoint; whether it called create_agent_graph, which graph instance
\* it used (0: none) and whether agent_graph was set when it ended.
Response(endpoint, got) ==
    [endpoint |-> endpoint, answered |-> ~got.raised,
     attempted |-> got.attempted,
     graph |-> IF got.raised THEN 0 ELSE got.startup.created,
     graph_set |-> got.startup.agent_graph]

StartupInit ==
    /\ \E collection \in BOOLEAN : startup = [Started EXCEPT !.collection = collection]
    /\ rag = NoRagCall
    /\ srch = NoSearch
    /\ IdleMore
    /\ IdleGraph
    /\ IdleRouter
    /\ IdleHistory
    /\ IdleCache
    /\ IdleRace

nonStartupVars ==
    <<rag, srch, moreVars, routerVars, graphVars, historyVars, cacheVars,
      raceVars>>

\* POST /chat: an exception of get_agent_graph becomes HTTPException 500.
ChatEndpoint ==
    /\ Len(startup.responses) < MaxRequests
    /\ \E got \in {get_agent_graph(startup)} :
          startup' = [got.startup EXCEPT
                         !.responses = Append(@, Response("chat", got))]
    /\ UNCHANGED nonStartupVars

\* stream_response: an exception of get_agent_graph is streamed as
\* "data: Error: ...".
StreamResponse ==
    /\ Len(startup.responses) < MaxRequests
    /\ \E got \in {get_agent_graph(startup)} :
          startup' = [got.startup EXCEPT
                         !.responses = Append(@, Response("stream", got))]
    /\ UNCHANGED nonStartupVars

\* DataIngester.__init__ of scripts/ingest_data.py creates the collection
\* when it is absent.
IngestData ==
    /\ ~startup.collection
    /\ startup' = [startup EXCEPT !.collection = TRUE]
    /\ UNCHANGED nonStartupVars

StartupNext == ChatEndpoint \/ StreamResponse \/ IngestData

SpecStartup == StartupInit /\ [][StartupNext]_vars

(***************************************************************************)
(* SpecIngest: runs of scripts/ingest_data.py over a mock_data directory.  *)
(* A file is given by its name, whether it can be read, its metadata       *)
(* markers in the order they stand in the file, and the number of chunks   *)
(* the text splitter makes of its content without the marker lines.        *)
(***************************************************************************)
IngestFile(name, readable, markers, chunks) ==
    [name |-> name, readable |-> readable, markers |-> markers, chunks |-> chunks]

\* parse_metadata: every marker #key: value sets metadata[key]; a later
\* marker of the same key replaces an earlier one.
RECURSIVE parse_metadata(_, _)
parse_metadata(markers, n) ==
    IF n = 0 THEN <<>>
    ELSE (markers[n][1] :> markers[n][2]) @@ parse_metadata(markers, n - 1)

\* chunk_document: one (chunk, metadata) pair per chunk of the splitter.
chunk_document(file, agent_type) ==
    [i \in 1..file.chunks |->
        [document |-> <<file.name, i>>,
         metadata |-> [agent_type |-> agent_type,
                       chunk_index |-> ToString(i - 1),
                       total_chunks |-> ToString(file.chunks)]]]

\* A variant of the loop body that gives the chunks the file's own
\* metadata: a marker #agent_type replaces the directory's category.
LoadFileMarker(file, agent_type) ==
    IF ~file.readable THEN <<>>
    ELSE LET parsed == parse_metadata(file.markers, Len(file.markers))
             chunks == chunk_document(file, agent_type)
         IN  [i \in 1..Len(chunks) |->
                 [document |-> chunks[i].document,
                  metadata |->
                      [source_file |-> file.name,
                       agent_type |-> DictGet(parsed, "agent_type", agent_type),
                       document_type |-> DictGet(parsed, "document_type", "general"),
                       destination |-> DictGet(parsed, "destination", ""),
                       last_updated |-> DictGet(parsed, "last_updated", ""),
                       effective_date |-> DictGet(parsed, "effective_date", "")]
                          @@ chunks[i].metadata]]

\* The body of the loop of load_documents_from_directory for one file: the
\* chunks it appends to `documents`; none when reading the file raises.
LoadFile(file, agent_type) ==
    IF ~file.readable THEN <<>>
    ELSE LET parsed == parse_metadata(file.markers, Len(file.markers))
             metadata ==
                 [agent_type |-> agent_type,
                  source_file |-> file.name,
                  document_type |-> DictGet(parsed, "document_type", "general")]
                    @@ parsed
             chunks == chunk_document(file, agent_type)
         IN  [i \in 1..Len(chunks) |->
                 [document |-> chunks[i].document,
                  metadata |->
                      [source_file |-> metadata.source_file,
                       document_type |-> DictGet(metadata, "document_type", "general"),
                       destination |-> DictGet(metadata, "destination", ""),
                       last_updated |-> DictGet(metadata, "last_updated", ""),
                       effective_date |-> DictGet(metadata, "effective_date", "")]
                          @@ chunks[i].metadata]]

RECURSIVE LoadFiles(_, _, _)
LoadFiles(files, n, agent_type) ==
    IF n = 0 THEN <<>>
    ELSE LoadFiles(files, n - 1, agent_type) \o LoadFile(files[n], agent_type)

\* load_documents_from_directory: nothing for a missing directory or one
\* without .txt files, else the chunks of its files in order.
load_documents_from_directory(directory, agent_type) ==
    IF ~directory.exists THEN <<>>
    ELSE LoadFiles(directory.files, Len(directory.files), agent_type)

\* agent_mapping of ingest_documents, in the order of the dict.
agent_mapping ==
    <<<<"travel_support", "travel_support">>,
      <<"booking_payments", "booking_payments">>,
      <<"policy", "policy">>>>

\* The chunks of one subdirectory, each with the subdirectory it came from
\* (kept beside the metadata, for the claims only).
FromSubdir(data_dir, entry) ==
    LET docs == load_documents_from_directory(data_dir[entry[1]], entry[2])
    IN  [i \in 1..Len(docs) |->
            [document |-> docs[i].document, metadata |-> docs[i].metadata,
             subdir |-> entry[1]]]

\* ingest_documents: the chunks of the three subdirectories are added to
\* the collection in one batch (fewer than batch_size chunks); a batch whose
\* embedding or add raises is skipped.
ingest_documents(data_dir, collection, added) ==
    LET all_documents ==
            FromSubdir(data_dir, agent_mapping[1])
                \o FromSubdir(data_dir, agent_mapping[2])
                \o FromSubdir(data_dir, agent_mapping[3])
    IN  IF all_documents = <<>> \/ ~added THEN collection
        ELSE collection \o all_documents

\* clear_collection: delete and recreate; an exception is logged and the
\* collection stays as it was.
clear_collection(collection, cleared) == IF cleared THEN <<>> ELSE collection

IngestFiles ==
    [plain     |-> IngestFile("guide.txt", TRUE, <<>>, 1),
     typed     |-> IngestFile("faq.txt", TRUE,
                              <<<<"document_type", "faq">>,
                                <<"document_type", "guide">>>>, 2),
     foreign   |-> IngestFile("fees.txt", TRUE, <<<<"agent_type", "policy">>>>, 1),
     foreign2  |-> IngestFile("visa.txt", TRUE,
                              <<<<"agent_type", "travel_support">>,
                                <<"destination", "Lima">>>>, 1),
     unknown   |-> IngestFile("promo.txt", TRUE, <<<<"agent_type", "marketing">>>>, 2),
     locked    |-> IngestFile("locked.txt", FALSE, <<>>, 1),
     blank     |-> IngestFile("blank.txt", TRUE, <<<<"agent_type", "policy">>>>, 0)]

IngestDirectories ==
    {[exists |-> FALSE, files |-> <<>>],
     [exists |-> TRUE, files |-> <<>>],
     [exists |-> TRUE, files |-> <<IngestFiles.plain>>],
     [exists |-> TRUE, files |-> <<IngestFiles.foreign, IngestFiles.typed>>],
     [exists |-> TRUE, files |-> <<IngestFiles.locked, IngestFiles.foreign2>>],
     [exists |-> TRUE, files |-> <<IngestFiles.unknown>>],
     [exists |-> TRUE, files |-> <<IngestFiles.blank, IngestFiles.plain>>]}

Subdirs == {agent_mapping[i][1] : i \in 1..Len(agent_mapping)}

\* The answers main() can get about a collection that already holds
\* documents: --force, --skip-existing, or the prompt answered yes or no.
MainFlags == {"force", "skip_existing", "yes", "no"}

IngestInit ==
    /\ \E data_dir \in [Subdirs -> IngestDirectories] :
          ingest = [data_dir |-> data_dir, collection |-> <<>>, runs |-> 0]
    /\ whr = NoWhere
    /\ chat = NoChat
    /\ rag = NoRagCall
    /\ srch = NoSearch
    /\ startup = Started
    /\ IdleGraph
    /\ IdleRouter
    /\ IdleHistory
    /\ IdleCache
    /\ IdleRace

nonIngestVars ==
    <<whr, chat, rag, srch, startup, routerVars, graphVars, historyVars,
      cacheVars, raceVars>>

\* main() of ingest_data.py: a collection that holds documents is cleared
\* first (--force, or "yes" at the prompt) or the run ends without
\* ingesting; then ingest_documents.
IngestMain ==
    /\ ingest.runs < MaxRuns
    /\ \E flag \in MainFlags, cleared \in BOOLEAN, added \in BOOLEAN :
          IF Len(ingest.collection) > 0 /\ flag \in {"skip_existing", "no"}
          THEN ingest' = [ingest EXCEPT !.runs = @ + 1]
          ELSE \E emptied \in {IF Len(ingest.collection) > 0
                               THEN clear_collection(ingest.collection, cleared)
                               ELSE ingest.collection} :
                  ingest' = [ingest EXCEPT
                      !.runs = @ + 1,
                      !.collection =
                          ingest_documents(ingest.data_dir, emptied, added)]
    /\ UNCHANGED nonIngestVars

IngestNext == IngestMain

SpecIngest == IngestInit /\ [][IngestNext]_vars

(***************************************************************************)
(* SpecSearch: one search_cached over the cached documents of a category,  *)
(* for every list of documents, query and case_sensitive flag drawn below. *)
(***************************************************************************)
SearchTexts == {"Refund fee", "one bag", "FEE b"}

RECURSIVE ListsOf(_, _)
\* The sequences of at most n elements of texts.
ListsOf(texts, n) ==
    IF n = 0 THEN {<<>>}
    ELSE LET shorter == ListsOf(texts, n - 1)
         IN  shorter \cup {Append(l, t) : l \in shorter, t \in texts}

CachedLists == ListsOf(SearchTexts, MaxDocs)

SearchQueries == {"", " \n", "fee", "FEE", "bag refund", "Refund", "zz"}

SearchInit ==
    /\ \E documents \in CachedLists, query \in SearchQueries,
          case_sensitive \in BOOLEAN :
          srch = [NoSearch EXCEPT !.documents = documents, !.query = query,
                                  !.case_sensitive = case_sensitive]
    /\ rag = NoRagCall
    /\ startup = Started
    /\ IdleMore
    /\ IdleGraph
    /\ IdleRouter
    /\ IdleHistory
    /\ IdleCache
    /\ IdleRace

Search ==
    /\ ~srch.searched
    /\ srch' = [srch EXCEPT
                   !.searched = TRUE,
                   !.result = search_cached(srch.query, srch.documents,
                                            srch.case_sensitive)]
    /\ UNCHANGED <<rag, startup, moreVars, routerVars, graphVars, historyVars,
                   cacheVars, raceVars>>

SearchNext == Search

SpecSearch == SearchInit /\ [][SearchNext]_vars

(***************************************************************************)
(* Claims about the router, checked under SpecRouter.                      *)
(***************************************************************************)
RouteCall == r_last.op = "route_query"
FallbackCall == r_last.op = "_fallback_routing"

\* The members of the first JSON object of a reply text, if it has one.
HasObject(text) ==
    \E i \in 1..Len(text) :
        /\ text[i].t = "LB"
        /\ \/ i + 1 <= Len(text) /\ text[i + 1].t = "RB"
           \/ i + 2 <= Len(text) /\ text[i + 1].t = "MEMBERS" /\ text[i + 2].t = "RB"

OnlyObject(text) == Len(text) = 3 /\ text[1].t = "LB" /\ text[2].t = "MEMBERS"
                    /\ text[3].t = "RB"

\* The reply's confidence member is there and is no number: null or a
\* non-numeric string.
UnconvertibleConfidence(text) ==
    /\ OnlyObject(text)
    /\ "confidence" \in DOMAIN text[2].m
    /\ \/ text[2].m["confidence"].type = "null"
       \/ text[2].m["confidence"].type = "string"
          /\ text[2].m["confidence"].str = "high"

\* C1: whatever the classifier's outcome, the decision route_query returns has
\* its category among travel_support, booking_payments, policy and its
\* confidence within [0, 1].
C1_DecisionInRange ==
    RouteCall =>
        /\ r_last.decision.agent_type \in {"travel_support", "booking_payments", "policy"}
        /\ r_last.decision.confidence >= 0
        /\ r_last.decision.confidence <= 100

\* C1's case: a parsed reply with an unknown category and a confidence above 1
\* came back as travel_support with confidence 1.
C1_Witness ==
    /\ RouteCall
    /\ r_last.outcome.kind = "reply"
    /\ OnlyObject(r_last.outcome.text)
    /\ DictGet(r_last.outcome.text[2].m, "agent_type", JNull) = JStr("billing")
    /\ DictGet(r_last.outcome.text[2].m, "confidence", JNull) = JNum(150)
    /\ r_last.decision.agent_type = "travel_support"
    /\ r_last.decision.confidence = 100

\* C2: route_query never raises, and when the classification call throws, the
\* reply holds no JSON object, or the confidence cannot be converted, it returns
\* exactly the decision of _fallback_routing for the same query.
C2_FailureGivesFallback ==
    RouteCall =>
        /\ ~r_last.raised
        /\ (\/ r_last.outcome.kind = "exception"
            \/ ~HasObject(r_last.outcome.text)
            \/ UnconvertibleConfidence(r_last.outcome.text))
           => r_last.decision = _fallback_routing(r_last.query)

\* C2's case: the reply names travel_support with an unconvertible confidence,
\* and the decision is the fallback's policy decision for the query: nothing
\* of the reply is kept.
C2_Witness ==
    /\ RouteCall
    /\ r_last.outcome.kind = "reply"
    /\ UnconvertibleConfidence(r_last.outcome.text)
    /\ DictGet(r_last.outcome.text[2].m, "agent_type", JNull) = JStr("travel_support")
    /\ ~r_last.raised
    /\ r_last.decision.agent_type = "policy"
    /\ r_last.decision.reasoning = "Matched policy keywords"

\* The keyword sets and scores as the design states them.
BookingSet ==
    {"price", "cost", "payment", "invoice", "booking", "package", "how much",
     "pricing", "pay", "refund", "charge"}
PolicySet ==
    {"policy", "cancel", "cancellation", "terms", "insurance", "baggage",
     "refund policy", "tos", "terms of service"}
SetScore(set, query) == Cardinality({k \in set : Contains(Lower(query), k)})

\* C3: the fallback's category is booking_payments iff booking_score >
\* policy_score and booking_score > 0; otherwise policy iff policy_score > 0;
\* otherwise travel_support.  Equal nonzero scores give policy.
C3_FallbackCategoryRule ==
    FallbackCall =>
        LET b == SetScore(BookingSet, r_last.query)
            p == SetScore(PolicySet, r_last.query)
            cat == r_last.decision.agent_type
        IN  /\ (cat = "booking_payments") <=> (b > p /\ b > 0)
            /\ (cat = "policy") <=> (~(b > p /\ b > 0) /\ p > 0)
            /\ (cat = "travel_support") <=> (~(b > p /\ b > 0) /\ ~(p > 0))
            /\ (b = p /\ b > 0) => cat = "policy"

\* C3's case: a fallback call on a query with equal nonzero scores gave policy.
C3_Witness ==
    /\ FallbackCall
    /\ SetScore(BookingSet, r_last.query) = SetScore(PolicySet, r_last.query)
    /\ SetScore(BookingSet, r_last.query) > 0
    /\ r_last.decision.agent_type = "policy"

\* C4: the fallback's confidence is min(0.8, 0.5 + 0.1 * s) for the score s of
\* the winning keyword set and 0.6 when no keyword matches, so it is one of
\* 0.6, 0.7, 0.8; "cancel my policy" gives policy_score 2, booking_score 0,
\* category policy and confidence 0.7.
C4_FallbackConfidence ==
    FallbackCall =>
        LET b == SetScore(BookingSet, r_last.query)
            p == SetScore(PolicySet, r_last.query)
            cat == r_last.decision.agent_type
            conf == r_last.decision.confidence
            s == IF cat = "booking_payments" THEN b ELSE p
        IN  /\ conf \in {60, 70, 80}
            /\ cat # "travel_support" => conf = (IF 50 + 10 * s < 80 THEN 50 + 10 * s ELSE 80)
            /\ cat = "travel_support" => conf = 60
            /\ s >= 3 => conf = 80
            /\ r_last.query = "cancel my policy" =>
                  p = 2 /\ b = 0 /\ cat = "policy" /\ conf = 70

\* C4's case: a fallback call on a query whose winning score is above 3 was
\* capped at 0.8.
C4_Witness ==
    /\ FallbackCall
    /\ SetScore(BookingSet, r_last.query) >= 4
    /\ r_last.decision.agent_type = "booking_payments"
    /\ r_last.decision.confidence = 80

\* The decision for scenario A was produced by the fallback: called directly,
\* or through route_query with the classification service failing.
ScenarioAFallback ==
    /\ r_last.query = "How much does the Bali package cost?"
    /\ \/ FallbackCall
       \/ RouteCall /\ r_last.outcome.kind = "exception"

\* C5 as stated: scenario A has booking_score 1, policy_score 0, category
\* booking_payments and confidence 0.6.
C5_Original ==
    ScenarioAFallback =>
        /\ SetScore(BookingSet, r_last.query) = 1
        /\ SetScore(PolicySet, r_last.query) = 0
        /\ r_last.decision.agent_type = "booking_payments"
        /\ r_last.decision.confidence = 60

\* C5 amended: scenario A has booking_score 3 (how much, package, cost),
\* policy_score 0, category booking_payments and confidence 0.8.
C5_ScenarioA ==
    ScenarioAFallback =>
        /\ SetScore(BookingSet, r_last.query) = 3
        /\ {k \in BookingSet : Contains(Lower(r_last.query), k)}
              = {"how much", "package", "cost"}
        /\ SetScore(PolicySet, r_last.query) = 0
        /\ r_last.decision.agent_type = "booking_payments"
        /\ r_last.decision.confidence = 80

\* C5's case: route_query on scenario A with the classifier failing.
C5_Witness ==
    /\ ScenarioAFallback
    /\ RouteCall
    /\ r_last.decision.agent_type = "booking_payments"

Finished == pc \in {"END", "done"}

HasCall(service, outcome) ==
    \E i \in 1..Len(calls) : calls[i].service = service /\ calls[i].outcome = outcome

\* C7: a run executes entry once, then the orchestrator once, then exactly one
\* of the three category nodes once, then reaches END; no node is executed
\* twice and the node to run next is never one already executed.
C7_SinglePass ==
    /\ Len(executed) <= 3
    /\ Len(executed) >= 1 => executed[1] = "entry"
    /\ Len(executed) >= 2 => executed[2] = "orchestrator"
    /\ Len(executed) >= 3 =>
          executed[3] \in {"travel_support", "booking_payments", "policy"}
    /\ \A i, j \in 1..Len(executed) : executed[i] = executed[j] => i = j
    /\ \A i \in 1..Len(executed) : pc # executed[i]
    /\ Finished <=> Len(executed) = 3
    /\ pc = "entry" <=> (via # "none" /\ executed = <<>>)
    /\ pc = "orchestrator" <=> executed = <<"entry">>

\* C7's case: a run that has reached END through the policy node.
C7_Witness ==
    /\ pc = "END"
    /\ executed = <<"entry", "orchestrator", "policy">>

\* C8: whatever the classification, embedding, vector-store and generation
\* services do, no exception leaves a node (the run always stands at a node of
\* the graph or at its end, never at "raised"), a run that has reached END
\* carries a non-empty answer, and chat_endpoint answers 200 with that
\* non-empty message, never 500.
C8_FailuresNeverAbort ==
    /\ pc \in {"idle", "entry", "orchestrator", "travel_support",
                "booking_payments", "policy", "END", "done"}
    /\ http.status # "500"
    /\ Finished => state.response # "" /\ Strip(state.response) # ""
    /\ pc = "done" => http.status = "200" /\ http.message = state.response

\* C8's case: a chat request in which the classification call, the
\* vector-store query and the generation call all failed was answered 200
\* with an apology.
C8_Witness ==
    /\ pc = "done"
    /\ via = "chat"
    /\ HasCall("classify", "exception")
    /\ HasCall("embed", "ok")
    /\ HasCall("store", "fail")
    /\ HasCall("generate", "exception")
    /\ http.status = "200"
    /\ http.message = GenerationErrorApology

\* The conversation holds no user-authored message, or its most recent one has
\* empty content.
NoUserQuery(messages) ==
    LET users == {i \in 1..Len(messages) : messages[i].role = "user"}
    IN  \/ users = {}
        \/ messages[CHOOSE i \in users : \A j \in users : j <= i].content = ""

\* C9: when the conversation handed to the graph has no user-authored message
\* (or its most recent one is empty), the current query is the empty text from
\* the entry node on, the run makes no call to the classifier, to a retrieval
\* strategy or to the generation service, and it ends with an apology answer.
C9_EmptyQueryShortCircuits ==
    (via # "none" /\ NoUserQuery(input.messages)) =>
        /\ calls = <<>>
        /\ executed # <<>> => state.current_query = ""
        /\ Finished =>
              state.response = "I apologize, but I couldn't process your query."

\* C9's case: a run handed a stale current_query and a conversation whose
\* most recent user message is empty, after an earlier non-empty one, has
\* reached END.
C9_Witness ==
    /\ pc = "END"
    /\ input.current_query # ""
    /\ Len(input.messages) = 2
    /\ input.messages[1] = Message("user", "Bali")
    /\ input.messages[2] = Message("user", "")
    /\ state.response = NoQueryApology
    /\ calls = <<>>

\* C10: once the orchestrator node has recorded a routing decision, its
\* agent_type is one of the three categories and equals current_agent, the
\* category node that runs is the one it names, and at END current_agent
\* names the node that produced the answer.
C10_DecisionSelectsNode ==
    state.routing_decision # NoDecision =>
        /\ state.routing_decision.agent_type
              \in {"travel_support", "booking_payments", "policy"}
        /\ state.current_agent = state.routing_decision.agent_type
        /\ pc \in {"travel_support", "booking_payments", "policy"}
              => pc = state.routing_decision.agent_type
        /\ Len(executed) = 3 =>
              /\ executed[3] = state.routing_decision.agent_type
              /\ executed[3] = state.current_agent
        /\ pc = "done" => http.agent_type = executed[3]

\* C10's case: a run routed to booking_payments has reached END with the
\* answer the booking_payments node generated.
C10_Witness ==
    /\ pc = "END"
    /\ state.routing_decision.agent_type = "booking_payments"
    /\ executed = <<"entry", "orchestrator", "booking_payments">>
    /\ HasCall("search_cached", "empty")
    /\ state.response = "One carry-on bag is free."

CategoryNodes == {"travel_support", "booking_payments", "policy"}

\* C11: when the generation service returns empty or whitespace-only text, or
\* raises, the category node that ran stores a fixed apology as the answer, no
\* exception leaves it and the run stands at END.
C11_GenerationFailureApology ==
    (/\ Len(executed) = 3
     /\ generated.kind # "none"
     /\ generated.kind = "exception" \/ Strip(generated.content) = "")
    => /\ executed[3] \in CategoryNodes
       /\ pc \in {"END", "done"}
       /\ state.response =
             IF generated.kind = "exception" THEN GenerationErrorApology
             ELSE GenerationEmptyApology
       /\ state.response \in
             {"I apologize, but I couldn't generate a response. Please try again or contact customer support.",
              "I apologize, but I encountered an error while generating a response. Please try again or contact customer support."}

\* C11's case: the booking_payments node ran with a generation service that
\* answered whitespace only.
C11_Witness ==
    /\ pc = "END"
    /\ executed[3] = "booking_payments"
    /\ generated = [kind |-> "reply", content |-> " \n"]
    /\ state.response = GenerationEmptyApology

\* C12 as stated: every step of a category node makes the conversation exactly
\* one message longer, the new last message being an assistant message with
\* the answer the node stored.
C12_NodeAppendsAnswer ==
    [][(pc \in CategoryNodes) =>
          state'.messages = Append(state.messages,
                                   Message("assistant", state'.response))]_vars

CallCount(service) ==
    Cardinality({i \in 1..Len(calls) : calls[i].service = service})

\* C15: within one request there is at most one classification call, one
\* embedding call, one vector-store query and one generation call, whether
\* they succeed or fail.
C15_EachServiceOnce ==
    \A service \in {"classify", "embed", "store", "generate"} :
        CallCount(service) <= 1

\* C15's case: a finished request in which the classification call, the
\* embedding call and the generation call all failed, each made once.
C15_Witness ==
    /\ Finished
    /\ HasCall("classify", "exception") /\ CallCount("classify") = 1
    /\ HasCall("embed", "fail") /\ CallCount("embed") = 1
    /\ HasCall("generate", "exception") /\ CallCount("generate") = 1

(***************************************************************************)
(* Claims about the prompt's history, checked under SpecHistory.           *)
(***************************************************************************)
\* The contents of the messages of c at the positions idx, in order.
RECURSIVE ContentsAt(_, _)
ContentsAt(c, idx) ==
    IF idx = {} THEN <<>>
    ELSE LET i == CHOOSE i \in idx : \A j \in idx : i <= j
         IN  <<c[i].content>> \o ContentsAt(c, idx \ {i})

UserPositions(c) == {i \in 1..Len(c) : c[i].role = "user"}

\* C14 as stated: the history of the prompt is the last min(4, n) user-authored
\* messages of the conversation, n being the number of its user-authored
\* messages.
C14_Original ==
    h_prompt.built =>
        LET users == UserPositions(h_conversation)
            n == Cardinality(users)
            k == IF n < 4 THEN n ELSE 4
            lastk == {i \in users : Cardinality({j \in users : j >= i}) <= k}
        IN  /\ Len(h_prompt.history) = k
            /\ h_prompt.history = ContentsAt(h_conversation, lastk)

\* C14 amended: the history of the prompt is the user-authored messages among
\* the last 4 messages of the conversation, in order; no message of another
\* role is included, and each of them in the window takes one of the 4 places.
C14_HistoryWindow ==
    h_prompt.built =>
        LET c == h_conversation
            window == {i \in 1..Len(c) : i > Len(c) - 4}
            inwindow == window \cap UserPositions(c)
        IN  /\ h_prompt.history = ContentsAt(c, inwindow)
            /\ Len(h_prompt.history) = Cardinality(inwindow)
            /\ Len(h_prompt.history) <= 4 - Cardinality(window \ UserPositions(c))
            /\ \A i \in 1..Len(c) :
                   c[i].role # "user" =>
                      \A j \in 1..Len(h_prompt.history) :
                          h_prompt.history[j] # c[i].content

\* C14's case: a conversation of five messages with four user messages and an
\* assistant message among the last four: the prompt holds three of them.
C14_Witness ==
    /\ h_prompt.built
    /\ Len(h_conversation) = 5
    /\ Cardinality(UserPositions(h_conversation)) = 4
    /\ h_conversation[2].role = "assistant"
    /\ h_prompt.history = <<"m3", "m4", "m5">>


(***************************************************************************)
(* Claims about the static cache and the hybrid retriever, checked under   *)
(* SpecCache.  loads counts the executions of load_documents for a         *)
(* category since that category was last cleared; c_returned holds what    *)
(* get_cached_documents has returned since then.                           *)
(***************************************************************************)
PolicyAgentCache(agent_type) == cag["policy_agent"].cached_documents[agent_type]

CacheCalls == {"cache_documents", "get_cached_documents", "search_cached"}

\* C16: on one CAGRetriever, whatever cache_documents, get_cached_documents
\* and search_cached calls were made for a category since it was last cleared,
\* load_documents was executed exactly once for it, also when it returned no
\* documents, and every get_cached_documents returned the same sequence.
C16_CacheIdempotent ==
    \A agent_type \in Categories :
        /\ cag["policy_agent"].loads[agent_type] <= 1
        /\ PolicyAgentCache(agent_type).present
               <=> cag["policy_agent"].loads[agent_type] = 1
        /\ (c_last.op \in CacheCalls /\ c_last.category = agent_type)
               => cag["policy_agent"].loads[agent_type] = 1
        /\ c_returned[agent_type] \subseteq {PolicyAgentCache(agent_type).docs}

\* A get_cached_documents after the directory changed under an entry that was
\* loaded empty: a second load would have returned documents.
C16_Witness ==
    /\ c_last = [op |-> "get_cached_documents", category |-> "policy"]
    /\ PolicyAgentCache("policy") = [present |-> TRUE, docs |-> <<>>]
    /\ c_returned["policy"] = {<<>>}
    /\ load_documents(disk) # <<>>
    /\ cag["policy_agent"].loads["policy"] = 1

\* C19: once the agent graph has been constructed, and as long as nothing is
\* invalidated, the policy corpus has been loaded at most once.
C19_PolicyLoadedOnce ==
    (graph_created /\ ~invalidated)
        => cag["policy_agent"].loads["policy"] + cag["hybrid"].loads["policy"] <= 1

HybridCalls ==
    {"initialize_cache", "retrieve", "get_static_policies", "create_agent_graph"}

\* C20: whatever initialize_cache, retrieve and get_static_policies calls were
\* made on a HybridRetriever since it was last cleared, the policy category of
\* its static cache was loaded exactly once and the filtered subset computed
\* exactly once; initialize_cache on an initialised retriever changes nothing.
C20_HybridInitialisedOnce ==
    /\ [](/\ cag["hybrid"].loads["policy"] <= 1
          /\ hybrid.filters <= 1
          /\ hybrid.cache_initialized
                 => cag["hybrid"].loads["policy"] = 1 /\ hybrid.filters = 1
          /\ c_last.op \in HybridCalls => hybrid.cache_initialized)
    /\ [][(hybrid.cache_initialized /\ c_last'.op = "initialize_cache")
             => (hybrid' = hybrid /\ cag' = cag)]_vars

\* initialize_cache was called on an initialised retriever after the directory
\* had changed.
C20_Witness ==
    /\ ~invalidated
    /\ c_last.op = "initialize_cache"
    /\ hybrid.cache_initialized
    /\ hybrid.filters = 1
    /\ cag["hybrid"].loads["policy"] = 1
    /\ load_documents(disk) # cag["hybrid"].cached_documents["policy"].docs


(***************************************************************************)
(* Claims about concurrent requests, checked under SpecRace.               *)
(***************************************************************************)
Loaders == {t \in Threads : threads[t].loaded}

\* C17: when two requests both make the first use of the not-yet-cached
\* category, or of the uninitialised hybrid retriever, and nothing has been
\* cleared, at most one of them performs the corpus load.
C17_OneLoader == ~invalidated => Cardinality(Loaders) <= 1

CompleteLoad == load_documents(disk)

Readers == {"get_cached_documents", "get_static_policies"}

Terms(text) ==
    {SubSeq(text, i, j) : i \in 1..Len(text), j \in 1..Len(text)} \cap
    {SubSeq(text, i, j) : <<i, j>> \in
        {p \in (1..Len(text)) \X (1..Len(text)) :
            /\ p[1] <= p[2]
            /\ \A k \in p[1]..p[2] : SubSeq(text, k, k) \notin Whitespace
            /\ p[1] = 1 \/ SubSeq(text, p[1] - 1, p[1] - 1) \in Whitespace
            /\ p[2] = Len(text) \/ SubSeq(text, p[2] + 1, p[2] + 1) \in Whitespace}}

\* The positions of the documents that contain a term of the query.
MatchPositions(documents, query, case_sensitive) ==
    {i \in 1..Len(documents) :
        \E term \in Terms(IF case_sensitive THEN query ELSE Lower(query)) :
            Contains(IF case_sensitive THEN documents[i] ELSE Lower(documents[i]), term)}

RECURSIVE SelectAt(_, _)
\* The elements of seq at the positions idx, in order.
SelectAt(seq, idx) ==
    IF idx = {} THEN <<>>
    ELSE LET i == CHOOSE i \in idx : \A j \in idx : i <= j
         IN  <<seq[i]>> \o SelectAt(seq, idx \ {i})

HasRelevanceKeyword(doc) ==
    \E k \in {"payment", "cancellation", "refund", "booking", "terms"} :
        Contains(Lower(doc), k)

HybridPolicyCache == cag["hybrid"].cached_documents["policy"].docs

\* C21: every static chunk that retrieve returned is a member of
\* static_policy_cache, a policy document with a relevance keyword.
C21_StaticFromSubset ==
    c_last.op = "retrieve" =>
        \A i \in 1..Len(c_result.static) :
            /\ HasRelevanceKeyword(c_result.static[i].content)
            /\ \E j \in 1..Len(hybrid.static_policy_cache) :
                   hybrid.static_policy_cache[j] = c_result.static[i].content

\* The first min(3, n) of the n cached policy documents that match the query.
FirstMatches(query) ==
    LET matches == SelectAt(HybridPolicyCache,
                            MatchPositions(HybridPolicyCache, query, FALSE))
    IN  [i \in 1..(IF Len(matches) < 3 THEN Len(matches) ELSE 3) |-> matches[i]]

ExpectedStatic(query, include_static) ==
    IF include_static
    THEN [i \in 1..Len(FirstMatches(query)) |->
             [content |-> FirstMatches(query)[i], agent_type |-> "policy",
              document_type |-> "static_policy", source |-> "cached"]]
    ELSE <<>>

\* C22: the static list that retrieve returned is the first 3, or fewer, of the
\* matches of the keyword search for the query, in cache order, each marked as
\* a cached static policy; it is empty when include_static is false.
C22_StaticFirstThree ==
    c_last.op = "retrieve" =>
        c_result.static = ExpectedStatic(c_result.query, c_result.include_static)

\* Four cached documents match the query and three were returned, the
\* document that does not match being passed over.
C22_Witness ==
    /\ c_last.op = "retrieve"
    /\ c_result.include_static
    /\ Cardinality(MatchPositions(HybridPolicyCache, c_result.query, FALSE)) = 4
    /\ Len(HybridPolicyCache) = 5
    /\ Len(c_result.static) = 3
    /\ c_result.static[2].content = HybridPolicyCache[3]

\* C23: when the embedding or the vector-store service failed during
\* retrieve, the call returned, with no dynamic chunk and with the static list
\* of the non-failing case.
C23_FailureKeepsStatic ==
    (c_last.op = "retrieve" /\ "fail" \in {c_result.embed, c_result.store}) =>
        /\ c_result.dynamic = <<>>
        /\ c_result.static = ExpectedStatic(c_result.query, c_result.include_static)

C23_Witness ==
    /\ c_last.op = "retrieve"
    /\ c_result.embed = "ok"
    /\ c_result.store = "fail"
    /\ c_result.dynamic = <<>>
    /\ Len(c_result.static) = 3


(***************************************************************************)
(* Claims about the semantic retriever, checked under SpecRag.             *)
(***************************************************************************)
\* The store's result cannot be formatted: it lacks the documents, or a row
\* of metadatas or of distances is shorter than the row of documents.
Malformed(results) ==
    \/ ~results.documents_key
    \/ results.metadatas_present /\ Len(results.metadatas) < Len(results.documents)
    \/ results.distances # <<>> /\ Len(results.distances) < Len(results.documents)

RagFailing ==
    rag.embed = "fail" \/ rag.store.kind = "exception" \/ Malformed(rag.store)

InStoreOrder ==
    /\ Len(rag.result) = Len(rag.store.documents)
    /\ \A i \in 1..Len(rag.result) :
           /\ rag.result[i].content = rag.store.documents[i]
           /\ rag.result[i].metadata =
                  (IF rag.store.metadatas_present THEN rag.store.metadatas[i] ELSE "{}")

\* C24 as stated: retrieve never raises, returns the empty sequence on a
\* failure, and otherwise the store's results in order, each with its distance.
C24_Original ==
    rag.op = "retrieve" =>
        /\ ~rag.raised
        /\ RagFailing => rag.result = <<>>
        /\ ~RagFailing =>
               /\ InStoreOrder
               /\ \A i \in 1..Len(rag.result) :
                      /\ "distance" \in rag.result[i].keys
                      /\ rag.result[i].distance = rag.store.distances[i]

\* C24: retrieve never raises, returns the empty sequence on a failure, and
\* otherwise the store's results in order, each with its distance when the
\* store's result carries distances and without a distance when it does not.
C24_RetrieveNeverRaises ==
    rag.op = "retrieve" =>
        /\ ~rag.raised
        /\ RagFailing => rag.result = <<>>
        /\ ~RagFailing =>
               /\ InStoreOrder
               /\ \A i \in 1..Len(rag.result) :
                      IF rag.store.distances # <<>>
                      THEN /\ "distance" \in rag.result[i].keys
                           /\ rag.result[i].distance = rag.store.distances[i]
                      ELSE "distance" \notin rag.result[i].keys

\* Two chunks were returned in the store's order, the farther one first.
C24_Witness ==
    /\ rag.op = "retrieve"
    /\ ~RagFailing
    /\ rag.store.distances = <<150, 0>>
    /\ Len(rag.result) = 2
    /\ rag.result[1].distance = 150
    /\ rag.result[2].distance = 0

\* The chunks retrieve returns, by position in the store's row, and the
\* distance retrieve_with_scores reads from each (1.0 when it has none).
RetrievedPositions == IF RagFailing THEN {} ELSE 1..Len(rag.store.documents)

DistanceRead(i) == IF rag.store.distances # <<>> THEN rag.store.distances[i] ELSE 100

ExpectedSimilarity(distance) == IF distance > 100 THEN 0 ELSE 100 - distance

KeptPositions ==
    {i \in RetrievedPositions :
        ExpectedSimilarity(DistanceRead(i)) >= rag.score_threshold}

\* C25: retrieve_with_scores returns exactly the chunks of retrieve whose
\* similarity is at least score_threshold, in their order, each with the
\* similarity 1 - distance for a distance up to 1 and 0 beyond, never negative.
C25_SimilarityFilter ==
    rag.op = "retrieve_with_scores" =>
        /\ ~rag.raised
        /\ [i \in 1..Len(rag.result) |-> rag.result[i].content]
               = SelectAt(rag.store.documents, KeptPositions)
        /\ \A k \in 1..Len(rag.result) :
               \E i \in KeptPositions :
                   /\ rag.result[k].content = rag.store.documents[i]
                   /\ "similarity" \in rag.result[k].keys
                   /\ rag.result[k].similarity = ExpectedSimilarity(DistanceRead(i))
                   /\ rag.result[k].similarity >= 0
                   /\ DistanceRead(i) = 0 => rag.result[k].similarity = 100
                   /\ DistanceRead(i) = 100 => rag.result[k].similarity = 0
                   /\ DistanceRead(i) = 150 => rag.result[k].similarity = 0

\* With a threshold below 0 the chunk at distance 1.5 was kept with similarity
\* 0, before the chunk at distance 0 with similarity 1.
C25_Witness ==
    /\ rag.op = "retrieve_with_scores"
    /\ rag.score_threshold < 0
    /\ rag.store.distances = <<150, 0>>
    /\ Len(rag.result) = 2
    /\ rag.result[1].similarity = 0
    /\ rag.result[2].similarity = 100

\* The positions of the user-authored messages of the initial state.
InputUserPositions ==
    {i \in 1..Len(input.messages) : input.messages[i].role = "user"}

\* C35: when the entry node has run, the current query is the content of
\* the most recent user-authored message of the conversation, whatever
\* current_query the initial state carried, and the conversation, the
\* routing decision, the current agent and the answer are those of the
\* initial state.
C35_EntrySetsQueryOnly ==
    (executed = <<"entry">>) =>
        /\ InputUserPositions # {}
              => state.current_query =
                     input.messages[CHOOSE i \in InputUserPositions :
                                       \A j \in InputUserPositions : j <= i].content
        /\ state.messages = input.messages
        /\ state.routing_decision = input.routing_decision
        /\ state.current_agent = input.current_agent
        /\ state.response = input.response

\* The entry node has replaced the query the initial state carried by the
\* content of a user message that is not the last message.
C35_Witness ==
    /\ executed = <<"entry">>
    /\ input.current_query = "Bali"
    /\ state.current_query # "Bali"
    /\ state.current_query # ""
    /\ input.messages[Len(input.messages)].role = "assistant"

(***************************************************************************)
(* Claims about the CAGRetriever of the PolicyAgent, checked under         *)
(* SpecCache.                                                              *)
(***************************************************************************)
PolicyAgentEntry(agent_type) == cag["policy_agent"].cached_documents[agent_type]

NoCorpus(dsk) == ~dsk.exists \/ dsk.files = <<>>

\* C26: when the corpus directory is missing or holds no text file, a call
\* of cache_documents, get_cached_documents or search_cached that loads a
\* category stores the empty sequence for it, and getting or searching a
\* category whose entry is the empty sequence returns the empty sequence.
C26_EmptyCorpus ==
    [][(c_last'.op \in {"cache_documents", "get_cached_documents", "search_cached"})
        => LET agent_type == c_last'.category
           IN  /\ (NoCorpus(disk) /\ ~PolicyAgentEntry(agent_type).present)
                     => /\ cag'["policy_agent"].cached_documents[agent_type] =
                            [present |-> TRUE, docs |-> <<>>]
                        /\ c_result'.docs = <<>>
               /\ (/\ c_last'.op # "cache_documents"
                   /\ cag'["policy_agent"].cached_documents[agent_type].docs = <<>>)
                     => c_result'.docs = <<>>]_vars

\* A search with a matching-looking query of a category loaded from a
\* missing directory has returned nothing.
C26_Witness ==
    /\ c_last.op = "search_cached"
    /\ c_result.query = "fee"
    /\ ~disk.exists
    /\ PolicyAgentEntry(c_last.category) = [present |-> TRUE, docs |-> <<>>]
    /\ cag["policy_agent"].loads[c_last.category] = 1
    /\ c_result.docs = <<>>

RECURSIVE LinesOf(_)
\* The lines of a text, each with its newline when it has one.
LinesOf(text) ==
    IF text = "" THEN <<>>
    ELSE LET nl == {i \in 1..Len(text) : SubSeq(text, i, i) = "\n"}
             n == IF nl = {} THEN Len(text)
                  ELSE CHOOSE i \in nl : \A j \in nl : i <= j
         IN  <<SubSeq(text, 1, n)>> \o LinesOf(SubSeq(text, n + 1, Len(text)))

\* A line of the form #key: value, with or without its newline.
IsMarkerLine(line) ==
    LET body == IF line # "" /\ SubSeq(line, Len(line), Len(line)) = "\n"
                THEN SubSeq(line, 1, Len(line) - 1) ELSE line
    IN  /\ Len(body) >= 4
        /\ SubSeq(body, 1, 1) = "#"
        /\ \E colon \in 3..(Len(body) - 1) :
              /\ SubSeq(body, colon, colon) = ":"
              /\ \A i \in 2..(colon - 1) : SubSeq(body, i, i) \in WordChars
              /\ Strip(SubSeq(body, colon + 1, Len(body))) # ""

RECURSIVE Concat(_)
Concat(lines) ==
    IF lines = <<>> THEN "" ELSE Head(lines) \o Concat(Tail(lines))

\* The text without its metadata-marker lines, trimmed.
WithoutMarkerLines(text) ==
    LET Kept(line) == ~IsMarkerLine(line)
    IN  Strip(Concat(SelectSeq(LinesOf(text), Kept)))

\* What the files that can be read should be cached as.
CleanedCorpus(dsk) ==
    IF NoCorpus(dsk) THEN <<>>
    ELSE LET Readable(f) == f.readable
             read == SelectSeq(dsk.files, Readable)
         IN  [i \in 1..Len(read) |-> WithoutMarkerLines(read[i].text)]

\* C27: whenever a call loads a category, every document stored for it is
\* the text of its file with every metadata-marker line removed, wherever
\* the line stands and whether or not a newline follows it, the other lines
\* unchanged, then trimmed.
C27_MarkerLinesRemoved ==
    [][\A agent_type \in Categories :
          (~PolicyAgentEntry(agent_type).present
              /\ cag'["policy_agent"].cached_documents[agent_type].present)
            => cag'["policy_agent"].cached_documents[agent_type].docs =
                   CleanedCorpus(disk)]_vars

\* C29: clear_cache of a category removes the entry of that category and
\* leaves the entries of the other categories as they were, clear_cache
\* without a category removes every entry, and a get_cached_documents of a
\* category that has no entry loads the directory anew and returns what it
\* loaded.
C29_ClearCache ==
    [][/\ (c_last'.op = "clear_cache")
            => \A c \in Categories :
                  cag'["policy_agent"].cached_documents[c] =
                      IF c_last'.category \in {c, ""} THEN NotCached
                      ELSE PolicyAgentEntry(c)
       /\ (c_last.op = "clear_cache" /\ c_last'.op = "get_cached_documents"
              /\ c_last.category \in {c_last'.category, ""})
            => /\ cag'["policy_agent"].loads[c_last'.category] = 1
               /\ cag'["policy_agent"].cached_documents[c_last'.category] =
                      [present |-> TRUE, docs |-> load_documents(disk)]
               /\ c_result'.docs = load_documents(disk)]_vars

\* The policy entry has been cleared while the booking_payments entry holds
\* documents.
C29_Witness ==
    /\ c_last = [op |-> "clear_cache", category |-> "policy"]
    /\ ~PolicyAgentEntry("policy").present
    /\ PolicyAgentEntry("booking_payments").present
    /\ PolicyAgentEntry("booking_payments").docs # <<>>

(***************************************************************************)
(* Claims about search_cached, checked under SpecSearch.                   *)
(***************************************************************************)
\* C28: search_cached returns exactly the cached documents, in cache order
\* and however many they are, that contain at least one whitespace-separated
\* term of the query, texts and terms being case-folded unless
\* case_sensitive is set; a query without terms returns no document.
C28_SearchCached ==
    srch.searched =>
        /\ srch.result =
               SelectAt(srch.documents,
                        MatchPositions(srch.documents, srch.query, srch.case_sensitive))
        /\ Terms(srch.query) = {} => srch.result = <<>>

\* A case-folded search has returned four documents out of five, the one
\* without the term left out.
C28_Witness ==
    /\ srch.searched
    /\ ~srch.case_sensitive
    /\ srch.query = "FEE"
    /\ Len(srch.documents) = 5
    /\ Len(srch.result) = 4
    /\ srch.documents[2] = "one bag"

\* The corpus directory of each category under mock_data: the directory
\* the CAGRetriever was given (dsk) is the policy one; the booking_payments
\* one holds a file of its own.
BookingPaymentsDirectory ==
    [exists |-> TRUE, files |-> <<File(TRUE, "Invoice due")>>]

CorpusDirectory(category, dsk) ==
    IF category = "policy" THEN dsk ELSE BookingPaymentsDirectory

\* C33: whenever a call loads a category, the documents stored for it are
\* the cleaned files of that category's own corpus directory.
C33_OwnCorpusDirectory ==
    [][\A agent_type \in Categories :
          (~PolicyAgentEntry(agent_type).present
              /\ cag'["policy_agent"].cached_documents[agent_type].present)
            => cag'["policy_agent"].cached_documents[agent_type].docs =
                   load_documents(CorpusDirectory(agent_type, disk))]_vars

(***************************************************************************)
(* Claims about the session store, checked under SpecSession.              *)
(***************************************************************************)
\* C36: after a chat request has completed successfully, the conversation
\* stored for its session is the conversation it started from followed by
\* exactly one user message, the request's, and exactly one assistant
\* message, whose content is the returned answer.
C36_StoredConversation ==
    \A slot \in Slots :
        chat.requests[slot].status = "ok"
            => chat.requests[slot].stored =
                   chat.requests[slot].start
                       \o <<Message("user", chat.requests[slot].message),
                            Message("assistant", chat.requests[slot].answer)>>

\* Both requests have completed successfully on the same session, each having
\* taken the stored conversation as its history.
BothOnOneSession ==
    /\ \A slot \in Slots : chat.requests[slot].status = "ok"
    /\ chat.requests["first"].session_id = chat.requests["second"].session_id
    /\ \A slot \in Slots :
          chat.requests[slot].start # <<>>
              /\ chat.requests[slot].start[1] = Message("user", "old")

Holds(conversation, message) ==
    \E i \in 1..Len(conversation) : conversation[i] = message

\* C37: when two chat requests on the same session have both completed,
\* however their steps interleaved, the conversation stored for the session
\* holds the user message and the assistant message of both.
C37_BothRequestsStored ==
    BothOnOneSession =>
        \A slot \in Slots :
            /\ Holds(chat.sessions[chat.requests[slot].session_id],
                     Message("user", chat.requests[slot].message))
            /\ Holds(chat.sessions[chat.requests[slot].session_id],
                     Message("assistant", chat.requests[slot].answer))

\* C38: a step in which a chat request fails (HTTP 500 of chat_endpoint, error
\* event of stream_response) leaves the stored conversation of every session
\* that existed before the step as it was.
C38_FailureKeepsSessions ==
    [][\A slot \in Slots :
          (chat.requests[slot].status # "error" /\ chat'.requests[slot].status = "error")
            => \A session_id \in DOMAIN chat.sessions :
                  chat'.sessions[session_id] = chat.sessions[session_id]]_vars

\* A request on the existing session, which holds a conversation, has
\* failed after another request had stored its messages there.
C38_Witness ==
    /\ chat.requests["second"].status = "error"
    /\ chat.requests["second"].session_id = "s1"
    /\ chat.requests["first"].status = "ok"
    /\ chat.requests["first"].session_id = "s1"
    /\ Len(chat.sessions["s1"]) >= 4

(***************************************************************************)
(* Claims about the start of the service, checked under SpecStartup.       *)
(***************************************************************************)
\* C30: once a construction of the semantic retriever has raised because
\* the collection was absent, the agent graph has not been created by it
\* and no later request is given an answer by the graph.
C30_NoAnswerAfterFailedConstruction ==
    \A i \in 1..Len(startup.responses), j \in 1..Len(startup.responses) :
        (i < j /\ ~startup.responses[i].answered) => ~startup.responses[j].answered

\* C39: the agent graph is a lazy singleton of the process.
\* create_agent_graph returns at most once; every answered request used the
\* graph that call returned and no request after it calls
\* create_agent_graph; a request whose construction failed leaves
\* agent_graph unset, and the request after it attempts the construction
\* again.
C39_LazySingleton ==
    /\ startup.created <= 1
    /\ \A i \in 1..Len(startup.responses) :
          LET r == startup.responses[i]
          IN  /\ r.answered => r.graph = 1
              /\ (r.answered /\ r.attempted) =>
                    \A j \in 1..Len(startup.responses) :
                        j > i => ~startup.responses[j].attempted
              /\ (r.attempted /\ ~r.answered) =>
                    /\ ~r.graph_set
                    /\ i < Len(startup.responses) =>
                          startup.responses[i + 1].attempted

\* A first request failed to construct the graph, a later one constructed
\* it, and a request after that was answered without constructing.
C39_Witness ==
    /\ Len(startup.responses) >= 3
    /\ ~startup.responses[1].answered
    /\ \E i \in 2..Len(startup.responses) :
          /\ startup.responses[i].answered
          /\ startup.responses[i].attempted
          /\ \E j \in (i + 1)..Len(startup.responses) :
                /\ startup.responses[j].answered
                /\ ~startup.responses[j].attempted

(***************************************************************************)
(* Claims about the ingestion script, checked under SpecIngest.            *)
(***************************************************************************)
\* C40: every chunk the ingestion script stores carries an agent_type that
\* is one of the three categories, namely the one agent_mapping gives the
\* directory its file was read from, whatever the file's own markers say.
C40_ChunkCategoryOfDirectory ==
    \A i \in 1..Len(ingest.collection) :
        LET chunk == ingest.collection[i]
        IN  /\ chunk.metadata.agent_type \in AgentTypes
            /\ \E k \in 1..Len(agent_mapping) :
                  /\ agent_mapping[k][1] = chunk.subdir
                  /\ chunk.metadata.agent_type = agent_mapping[k][2]

\* A stored chunk of a file whose #agent_type marker names another value
\* than the category of its directory.
C40_Witness ==
    \E i \in 1..Len(ingest.collection) :
        LET chunk == ingest.collection[i]
            files == ingest.data_dir[chunk.subdir].files
        IN  \E n \in 1..Len(files) :
                LET parsed == parse_metadata(files[n].markers, Len(files[n].markers))
                IN  /\ files[n].name = chunk.metadata.source_file
                    /\ "agent_type" \in DOMAIN parsed
                    /\ parsed["agent_type"] # chunk.metadata.agent_type

(***************************************************************************)
(* Further claims about the router, checked under SpecRouter.              *)
(***************************************************************************)
\* The number of opening braces less the closing braces among the first n
\* tokens of a reply.
Depth(text, n) ==
    Cardinality({i \in 1..n : text[i].t = "LB"})
        - Cardinality({i \in 1..n : text[i].t = "RB"})

\* The first balanced {...} span of a reply, <<>> when there is none.
FirstBalancedSpan(text) ==
    LET opens == {i \in 1..Len(text) : text[i].t = "LB"}
    IN  IF opens = {} THEN <<>>
        ELSE LET start == CHOOSE i \in opens : \A j \in opens : i <= j
                 closes == {j \in start..Len(text) : Depth(text, j) = 0}
             IN  IF closes = {} THEN <<>>
                 ELSE SubSeq(text, start, CHOOSE j \in closes : \A k \in closes : j <= k)

\* The first balanced span of the reply is a decision object.
FirstObjectValid(text) ==
    /\ FirstBalancedSpan(text) # <<>>
    /\ json_loads(FirstBalancedSpan(text)).exc = "none"
    /\ json_loads(FirstBalancedSpan(text)).isdict
    /\ BuildDecision(json_loads(FirstBalancedSpan(text)).d).exc = "none"

\* C31: when the first balanced {...} span of the classifier's reply is a
\* valid decision object, whatever prose or braces surround it, the decision
\* of route_query is the one built from that object, not the fallback's.
C31_FirstBalancedObject ==
    (RouteCall /\ r_last.outcome.kind = "reply" /\ FirstObjectValid(r_last.outcome.text))
        => r_last.decision =
               BuildDecision(json_loads(FirstBalancedSpan(r_last.outcome.text)).d).decision

(***************************************************************************)
(* Further claims about the graph, checked under Spec.                     *)
(***************************************************************************)
\* The category node that ran, "none" before any has.
CategoryNodeRun ==
    IF Len(executed) >= 3 THEN executed[3] ELSE "none"

\* C32: a request handled by the policy node makes no embedding call and no
\* vector-store query; one handled by the travel_support node makes no
\* search or read of the static cache; one handled by the booking_payments
\* node makes one semantic retrieval (one embedding call, at most one
\* vector-store query) and one search of the static cache.
C32_OwnRetrievalStrategy ==
    /\ CategoryNodeRun = "policy"
          => CallCount("embed") = 0 /\ CallCount("store") = 0
    /\ CategoryNodeRun = "travel_support"
          => CallCount("search_cached") = 0 /\ CallCount("get_cached_documents") = 0
    /\ CategoryNodeRun = "booking_payments"
          => /\ CallCount("embed") = 1
             /\ CallCount("store") <= 1
             /\ CallCount("search_cached") = 1
             /\ CallCount("get_cached_documents") = 0

\* A finished request of the booking_payments node with both retrievals
\* made.
C32_Witness ==
    /\ Finished
    /\ CategoryNodeRun = "booking_payments"
    /\ HasCall("embed", "ok") /\ HasCall("store", "ok")
    /\ CallCount("search_cached") = 1

(***************************************************************************)
(* Claims about the vector-store query, checked under SpecWhere.           *)
(***************************************************************************)
\* C34: the where clause of every query requires agent_type to equal the
\* requested category, whatever extra filter the caller supplied, and every
\* chunk a filter-honouring store returns is of the requested category.
C34_CategoryFilter ==
    whr.issued =>
        /\ "agent_type" \in DOMAIN whr.where
        /\ whr.where["agent_type"] = whr.agent_type
        /\ \A chunk \in whr.returned : chunk.agent_type = whr.agent_type

=============================================================================
